---- MODULE Spec2Model ----
(***************************************************************************)
(* Model of the order-execution layer of the premarket trading bot:        *)
(* ExecutionEngine (src/execution_engine.py) driven by its callers         *)
(* (src/run_realtime_trading.py) and by the broker callbacks that          *)
(* TWSDataApp (src/tws_data_fetcher.py) dispatches.                        *)
(*                                                                         *)
(* Prices are small integers (one unit = one price step), time is counted  *)
(* in entry-timeout periods.  The display-only fields of a position        *)
(* (tp_price, sl_price) are not carried: no handler reads them.            *)
(***************************************************************************)
EXTENDS Integers, Sequences, FiniteSets, TLC

\* ------------------------------------------------------------------ bounds
\* Largest order id the broker hands out in a run (3 ids per bracket, 1 per
\* end-of-day close order).
MaxOrderId == 7

\* The same for the runs that follow a series of trades (three brackets).
MaxSeriesOrderId == 9

\* Number of entry-timeout periods the clock may advance.
MaxTime == 2

\* Largest order id handed out in a run of the symbol monitor (one id per
\* entry order, one per exit order).
MaxMonitorOrderId == 4

\* Number of half seconds the monitor's clock may advance.
MaxClock == 6

\* Largest number of ticks and timer calls within one 1-second bucket.
MaxCurr == 2

\* The timestamp of the last 1-second bar the backtest is fed.
MaxBacktestClock == 8

\* Largest order id the threaded engine may use.
MaxThreadOrderId == 4

\* The number of fetch_historical_bars calls considered.
MaxFetches == 3

\* ------------------------------------------------------ program constants
\* ExecutionEngine.__init__: investment_per_trade (scaled to the price unit).
investment_per_trade == 2

\* _on_tws_error: "Error 201: Order rejected".
ORDER_REJECTED == 201

\* strategy_config.MAX_CONSECUTIVE_LOSSES
MAX_CONSECUTIVE_LOSSES == 2

\* strategy_config.ENTRY_TIMEOUT_MS, in clock periods (one period = 500 ms).
ENTRY_TIMEOUT == 1

\* ------------------------------------------------------------- input sets
Symbols == {"A", "B"}
NoSym == "-"

\* The symbol traded in a series of trades.
SeriesSymbol == "A"

\* entry_price arguments: 1 buys two shares, 3 is above the investment.
EntryPrices == {1, 3}

\* avgFillPrice reported with a Filled status; in a series of trades fills
\* come at two prices, so that a trade can win or lose.
FillPrices == {2}
SeriesFillPrices == {1, 2}

\* The status values _on_order_status treats as a failed or cancelled order.
CancelStatuses == {"Inactive", "Cancelled", "ApiCancelled"}

\* Order-status events <<status, filled, avgFillPrice>> of the broker's
\* stream: a fill reports the whole quantity, a cancellation none of it or a
\* part of it.  (ApiCancelled is handled exactly as Cancelled and is left out.)
StatusEvents ==
    {<<"Submitted", 0, 0>>, <<"Inactive", 0, 0>>,
     <<"Cancelled", 0, 0>>, <<"Cancelled", 1, 0>>}
    \cup {<<"Filled", 2, p>> : p \in FillPrices}

\* Error codes of the broker's error stream: the hard rejection and an
\* informational one.
ErrorCodes == {ORDER_REJECTED, 399}

OrderIds == 0..MaxSeriesOrderId

\* pos.get('actual_entry_price') of a position whose entry fill was not seen.
NoPrice == -1

VARIABLES
    \* ExecutionEngine and the broker calls it makes
    positions,        \* self.positions, in insertion order (a Python dict)
    order_to_symbol,  \* self.order_to_symbol
    trade_history,    \* self.trade_history
    blacklist,        \* self.blacklist
    next_order_id,    \* self.tws_app.next_order_id
    placed,           \* order ids passed to tws_app.placeOrder
    cancel_reqs,      \* order ids passed to tws_app.cancelOrder
    now,              \* the clock
    evt,              \* the last operation performed and what it returned
    \* SymbolMonitor (one monitored symbol)
    state,            \* self.state
    arm_time,         \* self.arm_time
    last_reason,      \* self.last_reason
    warmup_start_time,\* self.warmup_start_time
    market_data,      \* self.market_data (the scalar fields of MarketData)
    bars_1s,          \* self.bars_1s, a deque(maxlen)
    bars_5s,          \* self.bars_5s, a deque(maxlen)
    curr_1s_data,     \* self.curr_1s_data
    curr_5s_data,     \* self.curr_5s_data
    last_1s_ts,       \* self.last_1s_ts
    last_5s_ts,       \* self.last_5s_ts
    timer_time,       \* run(): when the timer loop last called on_timer
    upd,              \* the last update of the monitor and what it did
    \* BacktestEngine
    backtest,         \* the fields of the BacktestEngine
    \* threads
    lock,             \* the thread that holds ExecutionEngine.lock, or NoThread
    pc,               \* what each thread is doing
    job,              \* the arguments of the _update_bars call each thread is in
    \* StrategyLogic and the commission formula, on their own
    call,             \* the arguments of an evaluation and what it returned
    \* TWSDataApp.fetch_historical_bars
    fetch,            \* the request in progress and what the call returned
    \* TWSDataApp.lock and ExecutionEngine.lock
    locking           \* who holds each lock, and each thread's lock operations to come

engineVars == <<positions, order_to_symbol, trade_history, blacklist,
                next_order_id, placed, cancel_reqs>>

monitorVars == <<state, arm_time, last_reason, warmup_start_time, market_data,
                 bars_1s, bars_5s, curr_1s_data, curr_5s_data, last_1s_ts,
                 last_5s_ts, timer_time, upd>>

threadVars == <<lock, pc, job>>

vars == <<engineVars, now, evt, monitorVars, backtest, threadVars, call, fetch, locking>>

\* The engine's fields and the broker calls it has made, as one value.
Eng ==
    [positions |-> positions, order_to_symbol |-> order_to_symbol,
     trade_history |-> trade_history, blacklist |-> blacklist,
     next_order_id |-> next_order_id, placed |-> placed,
     cancel_reqs |-> cancel_reqs]

\* ------------------------------------------------------------ dictionary
\* symbol in self.positions
HasPos(P, s) == \E i \in 1..Len(P) : P[i].symbol = s

\* self.positions[symbol]
PosOf(P, s) == P[CHOOSE i \in 1..Len(P) : P[i].symbol = s]

\* self.positions[symbol] = value   (an existing key keeps its place)
PutPos(P, q) ==
    IF HasPos(P, q.symbol)
    THEN [i \in 1..Len(P) |-> IF P[i].symbol = q.symbol THEN q ELSE P[i]]
    ELSE Append(P, q)

\* pos.get('actual_entry_price', pos['entry_price'])
EntryOf(pos) ==
    IF pos.actual_entry_price = NoPrice THEN pos.entry_price
    ELSE pos.actual_entry_price

\* ------------------------------------------------------- _cleanup_position
\* A cleanup that also takes the symbol off the blacklist.
cleanup_position_unlists(E, symbol) ==
    IF HasPos(E.positions, symbol)
    THEN [E EXCEPT
            !.positions = SelectSeq(E.positions, LAMBDA p : p.symbol # symbol),
            !.order_to_symbol =
                [o \in OrderIds |-> IF E.order_to_symbol[o] = symbol THEN NoSym
                                    ELSE E.order_to_symbol[o]],
            !.blacklist = @ \ {symbol}]
    ELSE E

cleanup_position(E, symbol) ==
    IF HasPos(E.positions, symbol)
    THEN [E EXCEPT
            !.positions = SelectSeq(E.positions, LAMBDA p : p.symbol # symbol),
            !.order_to_symbol =
                [o \in OrderIds |-> IF E.order_to_symbol[o] = symbol THEN NoSym
                                    ELSE E.order_to_symbol[o]]]
    ELSE E

\* ------------------------------------------------------------ trade records
\* parent_id, order_id and status are history annotations (the records of the
\* source have none): the position the record was written for, the order
\* whose event wrote it, and the position's status at that moment.
FailedRecord(pos, reason, orderId) ==
    [symbol |-> pos.symbol, type |-> "FAILED", reason |-> reason,
     entry_price |-> pos.entry_price,
     parent_id |-> pos.parent_id, order_id |-> orderId, status |-> pos.status]

ClosedRecord(pos, exit_type, exit_price) ==
    [symbol |-> pos.symbol, type |-> "CLOSED", exit_type |-> exit_type,
     entry_price |-> EntryOf(pos), exit_price |-> exit_price,
     shares |-> pos.shares,
     parent_id |-> pos.parent_id, status |-> pos.status]

\* ------------------------------------------------------------ _on_tws_error
on_tws_error(E, reqId, errorCode) ==
    IF errorCode # ORDER_REJECTED THEN E
    ELSE LET symbol == E.order_to_symbol[reqId] IN
         IF symbol = NoSym THEN E
         ELSE LET B == [E EXCEPT !.blacklist = @ \cup {symbol}] IN
              IF HasPos(B.positions, symbol)
                 /\ PosOf(B.positions, symbol).status = "SUBMITTED"
              THEN cleanup_position(
                     [B EXCEPT !.trade_history =
                        Append(@, FailedRecord(PosOf(B.positions, symbol), "REJECTED", reqId))],
                     symbol)
              ELSE B

\* ---------------------------------------------------------- _on_order_status
\* A variant that copies the broker's status of the parent order into the
\* position: an acknowledgement arriving after the fill moves it back.
parent_status_copied(pos, orderId, status, avgFillPrice) ==
    IF orderId = pos.parent_id /\ status = "Filled" /\ pos.status # "OPEN"
    THEN [pos EXCEPT !.status = "OPEN", !.actual_entry_price = avgFillPrice]
    ELSE IF orderId = pos.parent_id /\ status = "Submitted"
    THEN [pos EXCEPT !.status = "SUBMITTED"]
    ELSE pos

\* "If parent order is filled, position is officially OPEN"
parent_filled(pos, orderId, status, avgFillPrice) ==
    IF orderId = pos.parent_id /\ status = "Filled" /\ pos.status # "OPEN"
    THEN [pos EXCEPT !.status = "OPEN", !.actual_entry_price = avgFillPrice]
    ELSE pos

\* A variant that removes the cancelled position and writes no record.
order_cancelled_unrecorded(E, pos, orderId, status) ==
    IF status \in CancelStatuses /\ pos.status = "SUBMITTED"
    THEN cleanup_position(E, pos.symbol)
    ELSE E

\* "If any order is rejected or cancelled"
order_cancelled(E, pos, orderId, status) ==
    IF status \in CancelStatuses /\ pos.status = "SUBMITTED"
    THEN cleanup_position(
           [E EXCEPT !.trade_history = Append(@, FailedRecord(pos, status, orderId))],
           pos.symbol)
    ELSE E

\* A variant that records the exit fill and forgets to clean the position up.
exit_filled_kept(E, pos, orderId, status, avgFillPrice) ==
    IF orderId \in {pos.tp_id, pos.sl_id} /\ status = "Filled"
    THEN [E EXCEPT !.trade_history =
            Append(@, ClosedRecord(pos, IF orderId = pos.tp_id THEN "TP" ELSE "SL",
                                   avgFillPrice))]
    ELSE E

\* "If any of the exit orders (TP or SL) are filled, position is CLOSED"
exit_filled(E, pos, orderId, status, avgFillPrice) ==
    IF orderId \in {pos.tp_id, pos.sl_id} /\ status = "Filled"
    THEN cleanup_position(
           [E EXCEPT !.trade_history =
              Append(@, ClosedRecord(pos, IF orderId = pos.tp_id THEN "TP" ELSE "SL",
                                     avgFillPrice))],
           pos.symbol)
    ELSE E

on_order_status(E, orderId, status, filled, avgFillPrice) ==
    IF E.order_to_symbol[orderId] = NoSym THEN E
    ELSE LET symbol == E.order_to_symbol[orderId] IN
         IF ~HasPos(E.positions, symbol) THEN E
         ELSE LET pos == parent_filled(PosOf(E.positions, symbol), orderId, status,
                                       avgFillPrice)
                  E1  == [E EXCEPT !.positions = PutPos(@, pos)]
                  E2  == order_cancelled(E1, pos, orderId, status)
              IN  exit_filled(E2, pos, orderId, status, avgFillPrice)

\* ------------------------------------------------------------ execute_trade
\* int(self.investment_per_trade / entry_price)
SharesFor(entry_price) == investment_per_trade \div entry_price

\* A bracket whose two exit orders share one order id.
NewPosition_one_exit_id(symbol, entry_price, parent_id, t) ==
    [symbol |-> symbol, entry_price |-> entry_price,
     shares |-> SharesFor(entry_price), parent_id |-> parent_id,
     tp_id |-> parent_id + 1, sl_id |-> parent_id + 1,
     status |-> "SUBMITTED", actual_entry_price |-> NoPrice, time |-> t]

NewPosition(symbol, entry_price, parent_id, t) ==
    [symbol |-> symbol, entry_price |-> entry_price,
     shares |-> SharesFor(entry_price), parent_id |-> parent_id,
     tp_id |-> parent_id + 1, sl_id |-> parent_id + 2,
     status |-> "SUBMITTED", actual_entry_price |-> NoPrice, time |-> t]

\* Variants of execute_trade's checks that never refuse.
AlreadyActive_skipped(E, symbol) == FALSE
Blacklisted_skipped(E, symbol) == FALSE

\* symbol in self.positions: the first check of execute_trade.
AlreadyActive(E, symbol) == HasPos(E.positions, symbol)

\* symbol in self.blacklist: the second check of execute_trade.
Blacklisted(E, symbol) == symbol \in E.blacklist

\* The value returned for a symbol that already has a position.
ActiveReturn == TRUE

\* Returns the engine after the call and the call's return value.
execute_trade(E, symbol, entry_price, t) ==
    IF AlreadyActive(E, symbol) THEN [eng |-> E, ret |-> ActiveReturn]
    ELSE IF Blacklisted(E, symbol) THEN [eng |-> E, ret |-> FALSE]
    ELSE IF SharesFor(entry_price) <= 0 THEN [eng |-> E, ret |-> FALSE]
    ELSE LET parent_id == E.next_order_id IN
         [eng |-> [E EXCEPT
                     !.next_order_id = @ + 3,
                     !.positions = PutPos(@, NewPosition(symbol, entry_price, parent_id, t)),
                     !.order_to_symbol =
                         [o \in OrderIds |->
                            IF o \in {parent_id, parent_id + 1, parent_id + 2}
                            THEN symbol ELSE @[o]],
                     !.placed = @ \cup {parent_id, parent_id + 1, parent_id + 2}],
          ret |-> TRUE]

\* ------------------------------------------------------ close_all_positions
\* A turn of the loop that sells whatever the position's status.
close_one_always_sells(E, symbol) ==
    LET pos == PosOf(E.positions, symbol)
        E1  == [E EXCEPT !.cancel_reqs = @ \cup {pos.tp_id, pos.sl_id}]
        E2  == [E1 EXCEPT !.placed = @ \cup {E1.next_order_id},
                          !.next_order_id = @ + 1]
        E3  == [E2 EXCEPT !.trade_history = Append(@, ClosedRecord(pos, "EOD", 0))]
    IN  cleanup_position(E3, symbol)

\* One turn of the loop "for symbol in symbols".
close_one(E, symbol) ==
    LET pos == PosOf(E.positions, symbol)
        E1  == [E EXCEPT !.cancel_reqs = @ \cup {pos.tp_id, pos.sl_id}]
        E2  == IF pos.status = "OPEN"
               THEN [E1 EXCEPT !.placed = @ \cup {E1.next_order_id},
                               !.next_order_id = @ + 1]
               ELSE E1
        E3  == [E2 EXCEPT !.trade_history = Append(@, ClosedRecord(pos, "EOD", 0))]
    IN  cleanup_position(E3, symbol)

RECURSIVE close_loop(_, _)
close_loop(E, symbols) ==
    IF symbols = <<>> THEN E
    ELSE close_loop(close_one(E, Head(symbols)), Tail(symbols))

close_all_positions(E) ==
    IF E.positions = <<>> THEN E
    ELSE close_loop(E, [i \in 1..Len(E.positions) |-> E.positions[i].symbol])

\* ====================================================== SymbolMonitor: bars
\* Times are counted in half seconds, prices in thousandths of a dollar,
\* medians are carried doubled (the mean of two middle values is a half).

\* A timestamp that is None.
NoTime == -999

\* One second, in clock units: timestamps carry a sub-second part.
Second == 2

\* deque(maxlen=300) and deque(maxlen=120), scaled down.
BARS_1S_MAXLEN == 4
BARS_5S_MAXLEN == 3

\* conditions.Bar; ticks is a history annotation: the number of trade ticks
\* (calls of on_tick) aggregated into the bar.
Bar(date, open, high, low, close, volume, average, ticks) ==
    [date |-> date, open |-> open, high |-> high, low |-> low,
     close |-> close, volume |-> volume, average |-> average, ticks |-> ticks]

\* deque.append on a deque with a maxlen: the oldest element is dropped.
DequeAppend(d, x, maxlen) ==
    IF Len(d) >= maxlen THEN Append(SubSeq(d, Len(d) - maxlen + 2, Len(d)), x)
    ELSE Append(d, x)

\* max(prices), min(prices), sum(vols) over the ticks of a bucket; an entry
\* of curr_*_data is <<price, size, source>>, source ("tick" or "timer")
\* being a history annotation.
MaxPrice(data) == CHOOSE m \in {data[i][1] : i \in 1..Len(data)} :
                     \A i \in 1..Len(data) : data[i][1] <= m
MinPrice(data) == CHOOSE m \in {data[i][1] : i \in 1..Len(data)} :
                     \A i \in 1..Len(data) : data[i][1] >= m

RECURSIVE SumVols(_)
SumVols(data) ==
    IF data = <<>> THEN 0 ELSE data[1][2] + SumVols(Tail(data))

TickCount(data) == Cardinality({i \in 1..Len(data) : data[i][3] = "tick"})

\* Bar(self.last_1s_ts, prices[0], max(prices), min(prices), prices[-1],
\*     sum(vols), vwap)
CloseBar(last_ts, data, vwap) ==
    Bar(last_ts, data[1][1], MaxPrice(data), MinPrice(data), data[Len(data)][1],
        SumVols(data), vwap, TickCount(data))

\* ts.replace(microsecond=0)
ts_1s(ts) == (ts \div Second) * Second

\* ts.replace(second=(ts.second // 5) * 5, microsecond=0)
ts_5s(ts) == (ts \div (5 * Second)) * (5 * Second)

\* One half of _update_bars: the window W = [bars, curr, last] of one bucket
\* width takes a tick that falls in the bucket starting at bucket_ts.
update_bucket(W, bucket_ts, item, vwap, maxlen) ==
    LET closes == W.last # NoTime /\ bucket_ts > W.last /\ W.curr # <<>> IN
    [bars |-> IF closes
              THEN DequeAppend(W.bars, CloseBar(W.last, W.curr, vwap), maxlen)
              ELSE W.bars,
     curr |-> Append(IF closes THEN <<>> ELSE W.curr, item),
     last |-> bucket_ts]

\* The bar fields of the monitor, as one value.
Windows ==
    [w1 |-> [bars |-> bars_1s, curr |-> curr_1s_data, last |-> last_1s_ts],
     w5 |-> [bars |-> bars_5s, curr |-> curr_5s_data, last |-> last_5s_ts]]

\* _update_bars(price, size, vwap, ts)
update_bars(B, price, size, vwap, ts, source) ==
    [w1 |-> update_bucket(B.w1, ts_1s(ts), <<price, size, source>>, vwap,
                          BARS_1S_MAXLEN),
     w5 |-> update_bucket(B.w5, ts_5s(ts), <<price, size, source>>, vwap,
                          BARS_5S_MAXLEN)]

SetWindows(B) ==
    /\ bars_1s' = B.w1.bars
    /\ curr_1s_data' = B.w1.curr
    /\ last_1s_ts' = B.w1.last
    /\ bars_5s' = B.w5.bars
    /\ curr_5s_data' = B.w5.curr
    /\ last_5s_ts' = B.w5.last

\* ============================================== strategy_config, conditions
\* Returns and fractions are in percent, MAX_SPREAD_PCT in tenths of a
\* percent; durations are in seconds and scaled down.
SHOCK_RET_1S == 2
SHOCK_VOL_MULT_1S == 3
SHOCK_RET_2S == 3
SHOCK_VOL_MULT_2S == 3
CONFIRM_RET_5S == 4
CONFIRM_VOL_MULT_5S == 5
RANGE_MULT_5S == 2
NO_FADE_FRAC == 50
MAX_SPREAD_PCT == 25
SPREAD_REL_MULT == 25
STOP_PCT == 5
STOP_RANGE_MULT == 50
TP_R_MULT == 150
FAIL_RET_1S == 2
TIME_STOP_SECONDS == 2
MIN_PNL_AT_TIME == 20
ARM_TIMEOUT_SECONDS == 1
WARMUP_MIN_1S_BARS == 2
WARMUP_MIN_5S_BARS == 1
WARMUP_FALLBACK_SECONDS == 1

\* PREMARKET_WINDOWS: one window, given by the clock values of its two ends
\* (the session starts inside it).
WINDOW_START == 0
WINDOW_END == 6
PREMARKET_WINDOWS == {<<WINDOW_START, WINDOW_END>>}

\* calculate_medians' floors, doubled: max(1.0, med_vol), max(0.001,
\* med_range), and the values returned for no bars: 1.0 and 0.01.
MED_VOL_FLOOR == 2
MED_RANGE_FLOOR == 2
MED_RANGE_EMPTY == 20

\* stop_price and R are carried in 1/400 of a price unit: the products with
\* STOP_RANGE_MULT (of a doubled median) and STOP_PCT are then whole.
StopScale == 400

Abs(x) == IF x < 0 THEN -x ELSE x
Max2(a, b) == IF a >= b THEN a ELSE b

\* sorted(values)[k - 1]
KthSmallest(values, k) ==
    CHOOSE v \in {values[i] : i \in 1..Len(values)} :
        /\ Cardinality({i \in 1..Len(values) : values[i] < v}) < k
        /\ Cardinality({i \in 1..Len(values) : values[i] <= v}) >= k

\* The median of a non-empty list, doubled: "volumes[mid] if len % 2 != 0
\* else (volumes[mid-1] + volumes[mid]) / 2.0", mid = len // 2.
Median2(values) ==
    LET mid == Len(values) \div 2 IN
    IF Len(values) % 2 # 0 THEN 2 * KthSmallest(values, mid + 1)
    ELSE KthSmallest(values, mid) + KthSmallest(values, mid + 1)

\* calculate_medians without "max(1.0, med_vol)" and "max(0.001, med_range)".
calculate_medians_no_floor(bars, window_seconds) ==
    IF bars = <<>> THEN [vol |-> MED_VOL_FLOOR, range |-> MED_RANGE_EMPTY]
    ELSE [vol   |-> Median2([i \in 1..Len(bars) |-> bars[i].volume]),
          range |-> Median2([i \in 1..Len(bars) |-> bars[i].high - bars[i].low])]

\* StrategyLogic.calculate_medians(bars, window_seconds); both medians are
\* doubled.  The window argument is not read.
calculate_medians(bars, window_seconds) ==
    IF bars = <<>> THEN [vol |-> MED_VOL_FLOOR, range |-> MED_RANGE_EMPTY]
    ELSE [vol   |-> Max2(MED_VOL_FLOOR,
                         Median2([i \in 1..Len(bars) |-> bars[i].volume])),
          range |-> Max2(MED_RANGE_FLOOR,
                         Median2([i \in 1..Len(bars) |-> bars[i].high - bars[i].low]))]

\* StrategyLogic.is_in_window (BYPASS_TIME_WINDOW is not configured)
is_in_window(dt) ==
    \E w \in PREMARKET_WINDOWS : w[1] <= dt /\ dt <= w[2]

\* check_shock_1s without its "if last_1s.open == 0" test.
check_shock_1s_no_open_test(D) ==
    IF D.bars_1s = <<>> THEN FALSE
    ELSE LET last_1s == D.bars_1s[Len(D.bars_1s)] IN
         LET is_shock ==
                /\ (last_1s.close - last_1s.open) * 100
                      >= SHOCK_RET_1S * last_1s.open
                /\ 2 * last_1s.volume >= SHOCK_VOL_MULT_1S * D.med_vol_1s
         IN  IF ~is_shock /\ Len(D.bars_1s) >= 2
             THEN LET prev_1s == D.bars_1s[Len(D.bars_1s) - 1] IN
                  IF prev_1s.open > 0
                  THEN /\ (last_1s.close - prev_1s.open) * 100
                             >= SHOCK_RET_2S * prev_1s.open
                       /\ 2 * (last_1s.volume + prev_1s.volume)
                             >= SHOCK_VOL_MULT_2S * D.med_vol_1s
                  ELSE is_shock
             ELSE is_shock

\* StrategyLogic.check_shock_1s; D is the MarketData snapshot with its bars.
check_shock_1s(D) ==
    IF D.bars_1s = <<>> THEN FALSE
    ELSE LET last_1s == D.bars_1s[Len(D.bars_1s)] IN
         IF last_1s.open = 0 THEN FALSE
         ELSE LET is_shock ==
                    /\ (last_1s.close - last_1s.open) * 100
                          >= SHOCK_RET_1S * last_1s.open
                    /\ 2 * last_1s.volume >= SHOCK_VOL_MULT_1S * D.med_vol_1s
              IN  IF ~is_shock /\ Len(D.bars_1s) >= 2
                  THEN LET prev_1s == D.bars_1s[Len(D.bars_1s) - 1] IN
                       IF prev_1s.open > 0
                       THEN /\ (last_1s.close - prev_1s.open) * 100
                                  >= SHOCK_RET_2S * prev_1s.open
                            /\ 2 * (last_1s.volume + prev_1s.volume)
                                  >= SHOCK_VOL_MULT_2S * D.med_vol_1s
                       ELSE is_shock
                  ELSE is_shock

\* StrategyLogic.check_confirm_5s (BYPASS_VWAP_CHECK is not configured)
check_confirm_5s(D) ==
    IF D.bars_5s = <<>> THEN FALSE
    ELSE LET last_5s == D.bars_5s[Len(D.bars_5s)] IN
         IF last_5s.open = 0 THEN FALSE
         ELSE /\ (last_5s.close - last_5s.open) * 100
                    >= CONFIRM_RET_5S * last_5s.open
              /\ 2 * last_5s.volume >= CONFIRM_VOL_MULT_5S * D.med_vol_5s
              /\ 2 * (last_5s.high - last_5s.low) >= RANGE_MULT_5S * D.med_range_5s
              /\ ~(D.price * 100 < 105 * D.vwap)

\* StrategyLogic.check_no_fade
check_no_fade(D) ==
    IF D.bars_5s = <<>> THEN FALSE
    ELSE LET last_5s == D.bars_5s[Len(D.bars_5s)]
             range_5s == last_5s.high - last_5s.low
         IN  IF range_5s = 0 THEN TRUE
             ELSE (last_5s.high - D.price) * 100 <= (100 - NO_FADE_FRAC) * range_5s

\* StrategyLogic.check_exec_safety (bid and ask are never negative)
check_exec_safety(D) ==
    IF D.bid = 0 \/ D.ask = 0 THEN FALSE
    ELSE IF (D.ask - D.bid) * 1000 > MAX_SPREAD_PCT * D.bid THEN FALSE
    ELSE IF D.bars_5s # <<>>
            /\ LET last_5s == D.bars_5s[Len(D.bars_5s)] IN
               /\ last_5s.open > 0
               /\ Abs(last_5s.close - last_5s.open) > 0
               /\ (D.ask - D.bid) * last_5s.open * 100
                     > SPREAD_REL_MULT * Abs(last_5s.close - last_5s.open) * D.bid
         THEN FALSE
    ELSE TRUE

\* StrategyLogic.check_exit: the reason of the exit, "" for none.  t is
\* datetime.now(); stop_price and R are in 1/StopScale of a price unit.
check_exit(D, entry_price, stop_price, entry_time, R, t) ==
    IF D.price <= 0 THEN ""
    ELSE IF D.price * StopScale <= stop_price THEN "HARD_STOP"
    ELSE IF D.bars_1s # <<>>
            /\ LET last_1s == D.bars_1s[Len(D.bars_1s)] IN
               /\ last_1s.open > 0
               /\ (last_1s.close - last_1s.open) * 100 <= -FAIL_RET_1S * last_1s.open
         THEN "WEAKNESS_EXIT"
    ELSE IF D.price * StopScale * 100 >= entry_price * StopScale * 100 + TP_R_MULT * R
         THEN "TAKE_PROFIT"
    ELSE IF t - entry_time >= TIME_STOP_SECONDS * Second
            /\ IF R > 0
               THEN (D.price - entry_price) * StopScale * 100 < MIN_PNL_AT_TIME * R
               ELSE TRUE
         THEN "TIME_STOP"
    ELSE ""

\* ===================================== the engine the SymbolMonitor calls
\* SymbolMonitor calls executor.get_position, execute_entry and execute_exit
\* and reads the statuses SUBMITTING / IN_TRADE / EXITING.  That variant of
\* the engine is not among the sources; it is modelled from the
\* specification's section 4.5, on the same engine fields.

\* strategy_config.INVESTMENT_PER_TRADE and ENTRY_OFFSET, in price units.
INVESTMENT_PER_TRADE == 500000
ENTRY_OFFSET == 10

\* Commission constants: per share and minimum in price units,
\* COMMISSION_PERCENT_LOW in tenths of a percent.  Commissions and P/L are
\* carried in 1/CommScale of a price unit, so that the percentage is exact.
COMMISSION_PER_SHARE == 5
COMMISSION_MIN == 1000
COMMISSION_PERCENT_LOW == 5
CommScale == 1000

\* The commission of one order of `shares` at `price`, the tier being chosen
\* by tier_price: "max(COMMISSION_MIN, shares * COMMISSION_PER_SHARE)" from
\* $1.00 up, "price * shares * COMMISSION_PERCENT_LOW" below.
commission(tier_price, price, shares) ==
    IF tier_price >= 1000
    THEN CommScale * Max2(COMMISSION_MIN, shares * COMMISSION_PER_SHARE)
    ELSE price * shares * COMMISSION_PERCENT_LOW

\* executor.get_position(symbol) is None
no_position(E, symbol) == ~HasPos(E.positions, symbol)

\* executor.get_position(symbol), for a symbol that has a position
get_position(E, symbol) == PosOf(E.positions, symbol)

\* The kill switch's running count of consecutive losing trades.
RECURSIVE consecutive_losses(_)
consecutive_losses(h) ==
    IF h = <<>> THEN 0
    ELSE LET r == h[Len(h)] IN
         IF r.type # "CLOSED" THEN consecutive_losses(SubSeq(h, 1, Len(h) - 1))
         ELSE IF r.pnl > 0 THEN 0
         ELSE IF r.pnl < 0 THEN 1 + consecutive_losses(SubSeq(h, 1, Len(h) - 1))
         ELSE consecutive_losses(SubSeq(h, 1, Len(h) - 1))

\* Removes the position and its order ids.
discard_position(E, symbol) ==
    [E EXCEPT
       !.positions = SelectSeq(E.positions, LAMBDA p : p.symbol # symbol),
       !.order_to_symbol =
           [o \in OrderIds |-> IF E.order_to_symbol[o] = symbol THEN NoSym
                               ELSE E.order_to_symbol[o]]]

\* executeEntry(symbol, askPrice, stopPrice, R) -> accepted
execute_entry(E, symbol, ask, stop_price, R, t) ==
    LET limit  == ask + ENTRY_OFFSET
        shares == INVESTMENT_PER_TRADE \div limit
        oid    == E.next_order_id
    IN
    IF HasPos(E.positions, symbol) THEN [eng |-> E, ret |-> FALSE]
    ELSE IF symbol \in E.blacklist THEN [eng |-> E, ret |-> FALSE]
    ELSE IF consecutive_losses(E.trade_history) >= MAX_CONSECUTIVE_LOSSES
         THEN [eng |-> E, ret |-> FALSE]
    ELSE IF shares <= 0 THEN [eng |-> E, ret |-> FALSE]
    ELSE [eng |-> [E EXCEPT
                     !.next_order_id = @ + 1,
                     !.positions = Append(@,
                        [symbol |-> symbol, status |-> "SUBMITTING",
                         requested_entry_price |-> limit,
                         actual_entry_price |-> NoPrice,
                         stop_price |-> stop_price, R |-> R,
                         shares |-> shares, filled_shares |-> 0,
                         entry_time |-> t, order_id |-> oid,
                         exit_reason |-> ""]),
                     !.order_to_symbol = [@ EXCEPT ![oid] = symbol],
                     !.placed = @ \cup {oid}],
          ret |-> TRUE]

\* executeExit(symbol, price, reason): a no-op unless the position is
\* IN_TRADE; otherwise EXITING, with a sell order placed.
execute_exit(E, symbol, price, reason) ==
    IF ~HasPos(E.positions, symbol) THEN E
    ELSE LET pos == PosOf(E.positions, symbol)
             oid == E.next_order_id
         IN  IF pos.status # "IN_TRADE" THEN E
             ELSE [E EXCEPT
                     !.next_order_id = @ + 1,
                     !.positions = PutPos(@, [pos EXCEPT !.status = "EXITING",
                                                         !.order_id = oid,
                                                         !.exit_reason = reason]),
                     !.order_to_symbol = [@ EXCEPT ![oid] = symbol],
                     !.placed = @ \cup {oid}]

\* The TradeRecord of a closed position.
TradeRecord(pos, exit_price, t) ==
    LET comm == commission(pos.actual_entry_price, pos.actual_entry_price,
                           pos.filled_shares)
                + commission(pos.actual_entry_price, exit_price, pos.filled_shares)
    IN  [symbol |-> pos.symbol, type |-> "CLOSED",
         entry_price |-> pos.actual_entry_price, exit_price |-> exit_price,
         shares |-> pos.filled_shares,
         pnl |-> CommScale * (exit_price - pos.actual_entry_price) * pos.filled_shares
                 - comm,
         commission |-> comm, exit_reason |-> pos.exit_reason, timestamp |-> t]

\* onOrderStatus(orderId, status, filledQty, avgFillPrice)
onOrderStatus(E, orderId, status, filled, avgFillPrice, t) ==
    LET symbol == E.order_to_symbol[orderId] IN
    IF symbol = NoSym \/ ~HasPos(E.positions, symbol) THEN E
    ELSE LET pos == PosOf(E.positions, symbol) IN
         IF pos.order_id # orderId THEN E
         ELSE IF status = "Filled" /\ pos.status = "SUBMITTING"
         THEN [E EXCEPT !.positions =
                 PutPos(@, [pos EXCEPT !.status = "IN_TRADE",
                                       !.actual_entry_price = avgFillPrice,
                                       !.filled_shares = filled])]
         ELSE IF status = "Filled" /\ pos.status = "EXITING"
         THEN discard_position(
                [E EXCEPT !.trade_history = Append(@, TradeRecord(pos, avgFillPrice, t))],
                symbol)
         ELSE IF status \in CancelStatuses /\ pos.status = "SUBMITTING"
         THEN IF filled > 0
              THEN [E EXCEPT !.positions =
                      PutPos(@, [pos EXCEPT !.status = "IN_TRADE",
                                            !.actual_entry_price = avgFillPrice,
                                            !.filled_shares = filled])]
              ELSE discard_position(E, symbol)
         ELSE E

\* onOrderError(orderId, errorCode, message)
onOrderError(E, orderId, errorCode, t) ==
    LET symbol == E.order_to_symbol[orderId] IN
    IF errorCode # ORDER_REJECTED \/ symbol = NoSym THEN E
    ELSE LET B == [E EXCEPT !.blacklist = @ \cup {symbol}] IN
         IF HasPos(B.positions, symbol)
            /\ PosOf(B.positions, symbol).status = "SUBMITTING"
         THEN discard_position(
                [B EXCEPT !.trade_history =
                    Append(@, [symbol |-> symbol, type |-> "FAILED",
                               reason |-> "REJECTED",
                               entry_price |-> PosOf(B.positions, symbol).requested_entry_price,
                               pnl |-> 0, timestamp |-> t])],
                symbol)
         ELSE B

\* --------------------------------------------------- the monitor's inputs
\* Preloaded history: none (the fetch failed), or two quiet bars and a bar
\* that is a shock (1 s) and a continuation (5 s).
QuietBar(date) == Bar(date, 1000, 1010, 1000, 1000, 2, 1000, 1)
MoveBar(date) == Bar(date, 1000, 1040, 1000, 1040, 10, 1020, 1)

Histories ==
    {<<<<>>, <<>>>>,
     << <<QuietBar(-6), QuietBar(-4), MoveBar(-2)>>,
        <<QuietBar(-30), QuietBar(-20), MoveBar(-10)>> >>}

\* Ticks: the price holds at the high with a tight quote; the same without a
\* quote; the price has faded from the high; the price is under the stop.
TickInputs ==
    {[price |-> 1040, size |-> 1, vwap |-> 980, bid |-> 1038, ask |-> 1040],
     [price |-> 1100, size |-> 20, vwap |-> 980, bid |-> 1098, ask |-> 1100],
     [price |-> 960, size |-> 1, vwap |-> 980, bid |-> 958, ask |-> 960]}

\* Order-status events of the monitor's orders: a fill of the whole quantity
\* at one of two prices, and a cancellation with nothing filled.
FilledQty == INVESTMENT_PER_TRADE \div (1040 + ENTRY_OFFSET)
MonitorStatusEvents ==
    {<<"Filled", FilledQty, 1045>>, <<"Filled", FilledQty, 950>>,
     <<"Cancelled", 0, 0>>}

\* Timestamps of the ticks fed to the bar aggregator alone, and their price.
TickTimes == {1, 11, 21}
BarsPrice == 1000

\* The bars the backtest is fed: a quiet bar and a 4 % move at $1.00, and a
\* 4 % move at $0.50.
LowMoveBar(date) == Bar(date, 500, 520, 500, 520, 10, 510, 1)
BacktestBars == {"quiet", "move", "low_move"}
BacktestBar(shape, date) ==
    IF shape = "quiet" THEN QuietBar(date)
    ELSE IF shape = "move" THEN MoveBar(date)
    ELSE LowMoveBar(date)

\* ------------------------------------------------------------------ threads
Threads == {"main", "callback", "dashboard"}
NoThread == "none"

\* The arguments of _update_bars(price, size, vwap, ts) of a thread that is
\* not inside it; source tells the tick callback's call from the timer's.
NoJob == [price |-> 0, size |-> 0, vwap |-> 0, ts |-> NoTime, source |-> "none"]

\* ============================================ SymbolMonitor: state machine
\* config.WATCHLIST: the symbol of the monitor.
MonitorSymbol == "A"

\* MarketData.__init__: the scalar fields (the medians start at 0.0).
MarketData0 ==
    [timestamp |-> 0, price |-> 0, vwap |-> 0, bid |-> 0, ask |-> 0,
     volume |-> 0, med_vol_1s |-> 0, med_vol_5s |-> 0, med_range_5s |-> 0]

\* The MarketData the checks read: the scalar fields and the two bar lists
\* ("self.market_data.bars_1s = list(self.bars_1s)").
Snapshot(md, b1, b5) ==
    [timestamp |-> md.timestamp, price |-> md.price, vwap |-> md.vwap,
     bid |-> md.bid, ask |-> md.ask, volume |-> md.volume,
     med_vol_1s |-> md.med_vol_1s, med_vol_5s |-> md.med_vol_5s,
     med_range_5s |-> md.med_range_5s, bars_1s |-> b1, bars_5s |-> b5]

\* The monitor's fields the state machine writes, as one value.
Mon ==
    [state |-> state, arm_time |-> arm_time, last_reason |-> last_reason,
     market_data |-> market_data]

\* What an update did: the states it went through (before, after the
\* warm-up check, after the position check, after the state's own check),
\* the checks it evaluated and the engine calls it made.
Upd(op, trail, checks, accepted, exit_reason) ==
    [op |-> op, trail |-> trail, checks |-> checks, accepted |-> accepted,
     exit_reason |-> exit_reason]

NoChecks == [shock |-> FALSE, confirm |-> FALSE, safety |-> FALSE, no_fade |-> FALSE]

\* "pos = self.executor.get_position(self.symbol)" and the lines that bring
\* the state in line with it.
sync_position(M, E, t) ==
    IF ~no_position(E, MonitorSymbol)
       /\ get_position(E, MonitorSymbol).status = "IN_TRADE"
    THEN [M EXCEPT !.state = "IN_TRADE"]
    ELSE IF no_position(E, MonitorSymbol)
    THEN IF M.state = "ARMED"
         THEN IF t - M.arm_time > ARM_TIMEOUT_SECONDS * Second
              THEN [M EXCEPT !.state = "IDLE", !.last_reason = "ARM_TIMEOUT"]
              ELSE M
         ELSE IF M.state # "SUBMITTING" /\ M.state # "WARMUP"
              THEN [M EXCEPT !.state = "IDLE"]
              ELSE M
    ELSE M

\* stop_dist of the entry, in 1/StopScale of a price unit.
stop_dist(D) ==
    Max2(Max2(StopScale * (D.ask - D.bid),
              (StopScale \div 200) * STOP_RANGE_MULT * D.med_range_5s),
         (StopScale \div 100) * STOP_PCT * D.price)

\* The branch "if self.state == 'IDLE'"
idle_branch(M, E, D, t) ==
    LET shock_ok == is_in_window(D.timestamp) /\ check_shock_1s(D) IN
    [mon |-> IF shock_ok
             THEN [M EXCEPT !.state = "ARMED", !.arm_time = t, !.last_reason = "SHOCK"]
             ELSE M,
     eng |-> E,
     checks |-> [NoChecks EXCEPT !.shock = shock_ok],
     accepted |-> FALSE, exit_reason |-> ""]

\* The branch "elif self.state == 'ARMED'"
armed_branch(M, E, D, t) ==
    LET confirm_ok == check_confirm_5s(D)
        safety_ok  == check_exec_safety(D)
        no_fade    == check_no_fade(D)
        entry_price == D.ask
        stop_price == StopScale * entry_price - stop_dist(D)
        R          == StopScale * entry_price - stop_price
        r          == execute_entry(E, MonitorSymbol, entry_price, stop_price, R, t)
        go         == confirm_ok /\ safety_ok /\ no_fade
    IN
    [mon |-> IF go /\ r.ret
             THEN [M EXCEPT !.state = "SUBMITTING", !.last_reason = "CONFIRMED"]
             ELSE M,
     eng |-> IF go THEN r.eng ELSE E,
     checks |-> [shock |-> FALSE, confirm |-> confirm_ok, safety |-> safety_ok,
                 no_fade |-> no_fade],
     accepted |-> go /\ r.ret, exit_reason |-> ""]

\* The branch "elif self.state == 'IN_TRADE'"
in_trade_branch(M, E, D, t) ==
    LET pos == get_position(E, MonitorSymbol)
        reason == check_exit(D, pos.actual_entry_price, pos.stop_price,
                             pos.entry_time, pos.R, t)
    IN
    [mon |-> IF reason # ""
             THEN [M EXCEPT !.state = "IDLE", !.last_reason = "EXIT_" \o reason]
             ELSE M,
     eng |-> IF reason # "" THEN execute_exit(E, MonitorSymbol, D.price, reason)
             ELSE E,
     checks |-> NoChecks, accepted |-> FALSE, exit_reason |-> reason]

\* A warm-up check that lets every update through.
warmup_complete_always(b1, b5, start, t) == TRUE

\* The warm-up check: "bars_ok or time_ok".
warmup_complete(b1, b5, start, t) ==
    LET bars_ok == Len(b1) >= WARMUP_MIN_1S_BARS /\ Len(b5) >= WARMUP_MIN_5S_BARS
        time_ok == t - start >= WARMUP_FALLBACK_SECONDS * Second
    IN  bars_ok \/ time_ok

\* SymbolMonitor._process_state_machine, on the bar windows b1 and b5 at
\* time t; start is warmup_start_time.
process_state_machine(M, E, b1, b5, start, t) ==
    LET m1 == calculate_medians(b1, 120)
        m5 == calculate_medians(b5, 120)
        md == [M.market_data EXCEPT !.med_vol_1s = m1.vol,
                                    !.med_vol_5s = m5.vol,
                                    !.med_range_5s = m5.range]
        D  == Snapshot(md, b1, b5)
        M0 == [M EXCEPT !.market_data = md]
    IN
    IF M.state = "WARMUP" /\ ~warmup_complete(b1, b5, start, t)
    THEN [mon |-> M0, eng |-> E, trail |-> <<M.state, M.state, M.state, M.state>>,
          checks |-> NoChecks, accepted |-> FALSE, exit_reason |-> ""]
    ELSE LET M1 == IF M.state = "WARMUP"
                   THEN [M0 EXCEPT !.state = "IDLE", !.last_reason = "WARMUP_COMPLETE"]
                   ELSE M0
             M2 == sync_position(M1, E, t)
             b  == IF M2.state = "IDLE" THEN idle_branch(M2, E, D, t)
                   ELSE IF M2.state = "ARMED" THEN armed_branch(M2, E, D, t)
                   ELSE IF M2.state = "IN_TRADE" THEN in_trade_branch(M2, E, D, t)
                   ELSE [mon |-> M2, eng |-> E, checks |-> NoChecks,
                         accepted |-> FALSE, exit_reason |-> ""]
         IN  [mon |-> b.mon, eng |-> b.eng,
              trail |-> <<M.state, M1.state, M2.state, b.mon.state>>,
              checks |-> b.checks, accepted |-> b.accepted,
              exit_reason |-> b.exit_reason]

\* SymbolMonitor.on_tick: the fields of market_data it sets.
tick_market_data(md, price, size, vwap, timestamp, bid, ask) ==
    [md EXCEPT !.timestamp = timestamp, !.price = price, !.volume = size,
               !.vwap = vwap, !.bid = bid, !.ask = ask]

\* SymbolMonitor.on_timer: "if ... (now - timestamp).total_seconds() > 1.0"
timer_market_data(md, t) ==
    IF t - md.timestamp > Second THEN [md EXCEPT !.timestamp = t] ELSE md

\* ------------------------------------------------- the monitor's fields
SetMonitor(M) ==
    /\ state' = M.state
    /\ arm_time' = M.arm_time
    /\ last_reason' = M.last_reason
    /\ market_data' = M.market_data

\* SymbolMonitor.__init__: _preload_history appends the fetched bars
\* (h1, h5; none when the fetch fails) to the two deques.
RECURSIVE Preload(_, _, _)
Preload(d, h, maxlen) ==
    IF h = <<>> THEN d ELSE Preload(DequeAppend(d, Head(h), maxlen), Tail(h), maxlen)

InitMonitor(h1, h5) ==
    /\ state = "WARMUP"
    /\ arm_time = NoTime
    /\ last_reason = "WARMING_UP"
    /\ warmup_start_time = 0
    /\ market_data = MarketData0
    /\ bars_1s = Preload(<<>>, h1, BARS_1S_MAXLEN)
    /\ bars_5s = Preload(<<>>, h5, BARS_5S_MAXLEN)
    /\ curr_1s_data = <<>>
    /\ curr_5s_data = <<>>
    /\ last_1s_ts = NoTime
    /\ last_5s_ts = NoTime
    /\ timer_time = NoTime
    /\ upd = Upd("init", <<>>, NoChecks, FALSE, "")

\* QUOTE_STALE_MS, in clock units (1000 ms).
QUOTE_STALE_MS == 2

\* ------------------------------------- inputs of the checks on their own
\* The arguments of one evaluation: a MarketData snapshot, the position
\* parameters of check_exit, the bars and window of calculate_medians, and
\* the price and share count of a commission.
Args(data, entry_price, stop_price, entry_time, R, bars, window_seconds, price, shares) ==
    [data |-> data, entry_price |-> entry_price, stop_price |-> stop_price,
     entry_time |-> entry_time, R |-> R, bars |-> bars,
     window_seconds |-> window_seconds, price |-> price, shares |-> shares]

\* A snapshot with the given price, timestamp, quote, 1-second median
\* (doubled) and bars; the 5-second medians are those of the bars.
Data(price, timestamp, bid, ask, med_vol_1s, b1, b5) ==
    Snapshot([timestamp |-> timestamp, price |-> price, vwap |-> 980,
              bid |-> bid, ask |-> ask, volume |-> 1,
              med_vol_1s |-> med_vol_1s,
              med_vol_5s |-> calculate_medians(b5, 120).vol,
              med_range_5s |-> calculate_medians(b5, 120).range], b1, b5)

NoData == Snapshot(MarketData0, <<>>, <<>>)
NoArgs == Args(NoData, 0, 0, 0, 0, <<>>, 120, 0, 0)

\* What an evaluation returned: the decision (ok), the reason of an exit,
\* the two medians (doubled), or the commission (in 1/CommScale).
Ret(ok, reason, vol, range, amount) ==
    [ok |-> ok, reason |-> reason, vol |-> vol, range |-> range,
     amount |-> amount]
NoRet == Ret(FALSE, "", 0, 0, 0)

NoCall == [args |-> NoArgs, fn |-> "none", at |-> 0, ret |-> NoRet]

\* Bars with a zero open, a falling bar, and a bar without volume.
ZeroOpenBar(date) == Bar(date, 0, 1040, 0, 1040, 10, 1020, 1)
WeakBar(date) == Bar(date, 1000, 1000, 970, 970, 2, 990, 1)
NoVolumeBar(date) == Bar(date, 1000, 1000, 1000, 1000, 0, 1000, 0)
HeavyBar(date) == Bar(date, 1000, 1100, 1000, 1100, 100, 1050, 1)

\* check_exit: a long position entered at 1000 at time 0, stop 950, R 50.
ExitArgs ==
    {Args(Data(p, 0, Max2(0, p - 2), p, 2, b1, <<>>), 1000, StopScale * 950, 0,
          StopScale * 50, <<>>, 120, 0, 0) :
        p \in {0, 940, 1000, 1100},
        b1 \in {<<>>, <<QuietBar(0)>>, <<WeakBar(0)>>}}

\* check_shock_1s: no bar, a latest bar with a zero open, a previous bar
\* with a zero open, and ordinary bars; any median.
ShockArgs ==
    {Args(Data(1040, 0, 1038, 1040, m, b1, <<>>), 0, 0, 0, 0, <<>>, 120, 0, 0) :
        m \in {0, 2, 4},
        b1 \in {<<>>, <<ZeroOpenBar(0)>>, <<MoveBar(-2), ZeroOpenBar(0)>>,
                <<ZeroOpenBar(-2), MoveBar(0)>>, <<QuietBar(-2), MoveBar(0)>>,
                <<MoveBar(0)>>, <<QuietBar(0)>>}}

\* check_confirm_5s, check_no_fade, check_exec_safety and is_in_window.
GateArgs ==
    {Args(Data(p, ts, q[1], q[2], 2, <<>>, b5), 0, 0, 0, 0, <<>>, 120, 0, 0) :
        p \in {1030, 1100}, ts \in {0, 8},
        q \in {<<0, 0>>, <<1098, 1100>>, <<1000, 1100>>},
        b5 \in {<<>>, <<MoveBar(0)>>, <<QuietBar(-10), QuietBar(0)>>}}

\* calculate_medians: no bars, bars without volume, an even and an odd
\* count, and six bars a second apart of which the oldest is heavy.
MedianBars ==
    {<<>>, <<NoVolumeBar(0)>>, <<NoVolumeBar(-2), NoVolumeBar(0)>>,
     <<QuietBar(-2), MoveBar(0)>>, <<MoveBar(-4), QuietBar(-2), HeavyBar(0)>>,
     <<HeavyBar(-4), QuietBar(-2), MoveBar(0), MoveBar(2)>>,
     <<HeavyBar(-10), QuietBar(-8), QuietBar(-6), QuietBar(-4), MoveBar(-2),
       MoveBar(0)>>}
MedianArgs ==
    {Args(NoData, 0, 0, 0, 0, bars, w, 0, 0) :
        bars \in MedianBars, w \in {4, 120}}

\* The commission of an order: a price of either tier, a share count.
CommissionArgs ==
    {Args(NoData, 0, 0, 0, 0, <<>>, 120, p, n) :
        p \in {500, 2000}, n \in {1, 100, 300, 1000}}

CheckArgs == ExitArgs \cup ShockArgs \cup GateArgs \cup MedianArgs \cup CommissionArgs

\* ------------------------------------------ inputs of the history fetch
\* fetch_historical_bars polls historical_complete every 0.1 s until
\* "waited < timeout" fails (timeout = 30.0): the number of polls, scaled.
FETCH_TIMEOUT_POLLS == 3

\* What the broker has to send for a request: no bar, one bar or two.
FetchAnswers == {<<>>, <<QuietBar(-4)>>, <<QuietBar(-4), MoveBar(-2)>>}

\* No request yet.  answer, delivered and end_sent are the broker's side: the
\* bars of the request, how many of them it has sent and whether it has sent
\* the end of the data; calls counts the calls.  in_data and in_complete say
\* whether the request id is a key of self.historical_data and of
\* self.historical_complete; historical_complete is the flag as the call
\* last saw it.
NoFetch ==
    [pc |-> "idle", answer |-> <<>>, delivered |-> 0, historical_data |-> <<>>,
     historical_complete |-> FALSE, waited |-> 0, bars |-> <<>>, calls |-> 0,
     in_data |-> FALSE, in_complete |-> FALSE, end_sent |-> FALSE]

\* ------------------------------------------------ the two locks
\* TWSDataApp.lock and ExecutionEngine.lock, both threading.Lock().
DataLock == "data"
EngineLock == "engine"
LockNames == {DataLock, EngineLock}

\* The API thread delivering ticks, the thread delivering order-status and
\* error events, and the main thread of run_trading_bot.
LockThreads == {"market", "status", "main"}

\* "with self.lock:" around the lock operations of its body.
With(l, body) == <<<<"acquire", l>>>> \o body \o <<<<"release", l>>>>

\* The lock operations of each routine, in program order.
get_next_req_id_locks == With(DataLock, <<>>)
is_position_active_locks == With(EngineLock, <<>>)
get_blacklist_locks == With(EngineLock, <<>>)
get_active_positions_detailed_locks == With(EngineLock, <<>>)
get_trade_history_locks == With(EngineLock, <<>>)
execute_trade_locks == With(EngineLock, <<>>)
on_order_status_locks == With(EngineLock, <<>>)

\* TWSDataApp.error looks the request up under the lock before it prints.
error_locks == With(DataLock, <<>>)

\* An end-of-day close that asks the data application for a request id
\* while it holds the engine lock.
close_all_positions_locks_req_id == With(EngineLock, get_next_req_id_locks)

\* close_all_positions: cancelOrder and placeOrder inside the engine lock;
\* no method of the data application that takes its lock is called.
close_all_positions_locks == With(EngineLock, <<>>)

\* preliminary_alert_handler: is_position_active, InDepthFilter.check
\* (get_blacklist), execute_trade.
preliminary_alert_handler_locks ==
    is_position_active_locks \o get_blacklist_locks \o execute_trade_locks

\* tickPrice: the lookup, then the field update.
tickPrice_locks == With(DataLock, <<>>) \o With(DataLock, <<>>)

\* tickSize with a VOLUME tick: the lookup, then the update, inside which
\* the callback (scanner.update -> preliminary_alert_handler) is called.
tickSize_locks ==
    With(DataLock, <<>>) \o With(DataLock, preliminary_alert_handler_locks)

\* unified_visualization: three locked reads of the engine.
unified_visualization_locks ==
    get_blacklist_locks \o get_active_positions_detailed_locks
        \o get_trade_history_locks

\* subscribe_market_data: contracts, get_next_req_id, realtime_callbacks.
subscribe_market_data_locks ==
    With(DataLock, <<>>) \o get_next_req_id_locks \o With(DataLock, <<>>)

\* What each thread runs.
JobsOf(t) ==
    IF t = "market" THEN {tickSize_locks, tickPrice_locks}
    ELSE IF t = "status" THEN {on_order_status_locks, error_locks}
    ELSE {close_all_positions_locks, unified_visualization_locks,
          subscribe_market_data_locks}

\* Both locks free, no thread inside a routine.
NoLocking ==
    [holder |-> [l \in LockNames |-> NoThread],
     todo |-> [t \in LockThreads |-> <<>>]]

\* ================================================= BacktestEngine
\* The mock quote of add_bar_1s: bid = close - 0.005, ask = close + 0.005.
MOCK_HALF_SPREAD == 5

\* The smallest stop distance of the backtest entry: max(0.01, ...).
MIN_STOP_DIST == 10

\* BacktestEngine.__init__(symbol, initial_capital); capital is carried as
\* its change since the start, in 1/CommScale of a price unit.  clock,
\* clock5, op, entered and timed_out are history annotations: the
\* timestamp of the next 1-second bar of the input, that of the last
\* 5-second bar fed, and what the last call did.
BacktestEngine0 ==
    [state |-> "IDLE", entry_price |-> 0, stop_price |-> 0, entry_time |-> NoTime,
     R |-> 0, shares |-> 0, arm_time |-> NoTime, capital |-> 0,
     trades |-> <<>>, market_data |-> Snapshot(MarketData0, <<>>, <<>>),
     clock |-> 0, clock5 |-> NoTime, op |-> "init", entered |-> FALSE,
     timed_out |-> FALSE]

\* The trade of _process_logic's IN_TRADE branch (pnl_pct, a quotient of
\* two of the fields, is left out).
BacktestTrade(BT, reason) ==
    LET md == BT.market_data
        exit_price == md.bid
        gross_pnl == (exit_price - BT.entry_price) * BT.shares
        total_commission ==
            commission(BT.entry_price, BT.entry_price, BT.shares)
            + commission(BT.entry_price, exit_price, BT.shares)
    IN  [symbol |-> MonitorSymbol, entry_time |-> BT.entry_time,
         exit_time |-> md.timestamp, entry_price |-> BT.entry_price,
         exit_price |-> exit_price, shares |-> BT.shares,
         investment |-> BT.entry_price * BT.shares, gross_pnl |-> gross_pnl,
         commission |-> total_commission,
         pnl |-> CommScale * gross_pnl - total_commission, reason |-> reason]

\* BacktestEngine._process_logic; wall is datetime.now(), which check_exit
\* reads.  (With at least one 1-second bar the 5-second fallback of the IDLE
\* branch does nothing.)
process_logic(BT, wall) ==
    LET md == BT.market_data IN
    IF BT.state = "IDLE"
    THEN IF is_in_window(md.timestamp) /\ check_shock_1s(md)
         THEN [BT EXCEPT !.state = "ARMED", !.arm_time = md.timestamp]
         ELSE BT
    ELSE IF BT.state = "ARMED"
    THEN IF md.timestamp - BT.arm_time > ARM_TIMEOUT_SECONDS * Second
         THEN [BT EXCEPT !.state = "IDLE", !.timed_out = TRUE]
         ELSE IF check_confirm_5s(md) /\ check_no_fade(md)
         THEN LET entry_price == md.ask
                  dist == Max2(Max2(StopScale * MIN_STOP_DIST,
                                    (StopScale \div 200) * STOP_RANGE_MULT
                                       * md.med_range_5s),
                               (StopScale \div 100) * STOP_PCT * entry_price)
                  stop_price == StopScale * entry_price - dist
                  shares == INVESTMENT_PER_TRADE \div entry_price
              IN  [BT EXCEPT !.entry_price = entry_price,
                             !.stop_price = stop_price,
                             !.R = StopScale * entry_price - stop_price,
                             !.entry_time = md.timestamp,
                             !.shares = shares,
                             !.state = IF shares > 0 THEN "IN_TRADE" ELSE @,
                             !.entered = shares > 0]
         ELSE BT
    ELSE IF BT.state = "IN_TRADE"
    THEN LET reason == check_exit(md, BT.entry_price, BT.stop_price,
                                  BT.entry_time, BT.R, wall)
             trade == BacktestTrade(BT, reason)
         IN  IF reason # ""
             THEN [BT EXCEPT !.trades = Append(@, trade),
                             !.capital = @ + trade.pnl,
                             !.state = "IDLE"]
             ELSE BT
    ELSE BT

\* BacktestEngine.add_bar_1s(bar); "bar.timestamp" is the bar's time.
add_bar_1s(BT, bar, wall) ==
    LET b1 == DequeAppend(BT.market_data.bars_1s, bar, BARS_1S_MAXLEN)
        md == [BT.market_data EXCEPT
                 !.timestamp = bar.date, !.price = bar.close, !.bars_1s = b1,
                 !.bid = bar.close - MOCK_HALF_SPREAD,
                 !.ask = bar.close + MOCK_HALF_SPREAD,
                 !.med_vol_1s = calculate_medians(b1, 120).vol]
    IN  process_logic([BT EXCEPT !.market_data = md, !.op = "add_bar_1s",
                                 !.entered = FALSE, !.timed_out = FALSE], wall)

\* BacktestEngine.add_bar_5s(bar)
add_bar_5s(BT, bar) ==
    LET b5 == DequeAppend(BT.market_data.bars_5s, bar, BARS_5S_MAXLEN)
        m5 == calculate_medians(b5, 120)
    IN  [BT EXCEPT !.market_data.bars_5s = b5,
                   !.market_data.med_vol_5s = m5.vol,
                   !.market_data.med_range_5s = m5.range,
                   !.op = "add_bar_5s", !.entered = FALSE, !.timed_out = FALSE]


\* ----------------------------------------------------------------- actions
\* The broker's events are inputs: any status or error event may arrive for
\* any order that was placed, repeated and in any order.
Event(op, symbol, orderId, status, filled, price, code, ret) ==
    [op |-> op, symbol |-> symbol, orderId |-> orderId, status |-> status,
     filled |-> filled, price |-> price, code |-> code, ret |-> ret]

SetEngine(E) ==
    /\ positions' = E.positions
    /\ order_to_symbol' = E.order_to_symbol
    /\ trade_history' = E.trade_history
    /\ blacklist' = E.blacklist
    /\ next_order_id' = E.next_order_id
    /\ placed' = E.placed
    /\ cancel_reqs' = E.cancel_reqs

\* ExecutionEngine.__init__, with next_order_id as nextValidId set it.
InitEngine ==
    /\ positions = <<>>
    /\ order_to_symbol = [o \in OrderIds |-> NoSym]
    /\ trade_history = <<>>
    /\ blacklist = {}
    /\ next_order_id = 1
    /\ placed = {}
    /\ cancel_reqs = {}
    /\ now = 0
    /\ evt = Event("init", NoSym, 0, "", 0, 0, 0, FALSE)

\* No thread holds the engine lock or is inside _update_bars.
InitThreads ==
    /\ lock = NoThread
    /\ pc = [t \in Threads |-> "idle"]
    /\ job = [t \in Threads |-> NoJob]

Init ==
    /\ InitEngine
    /\ InitMonitor(<<>>, <<>>)
    /\ backtest = BacktestEngine0
    /\ InitThreads
    /\ call = NoCall
    /\ fetch = NoFetch
    /\ locking = NoLocking

\* preliminary_alert_handler -> executor.execute_trade(symbol, price)
ExecuteTrade(s, ep, maxId) ==
    LET r == execute_trade(Eng, s, ep, now) IN
    /\ r.eng.next_order_id <= maxId + 1
    /\ SetEngine(r.eng)
    /\ evt' = Event("execute_trade", s, 0, "", 0, ep, 0, r.ret)
    /\ UNCHANGED <<now, monitorVars, backtest, threadVars, call, fetch, locking>>

\* TWSDataApp.orderStatus -> ExecutionEngine._on_order_status
OrderStatus(o, e) ==
    /\ o \in placed
    /\ SetEngine(on_order_status(Eng, o, e[1], e[2], e[3]))
    /\ evt' = Event("order_status", NoSym, o, e[1], e[2], e[3], 0, FALSE)
    /\ UNCHANGED <<now, monitorVars, backtest, threadVars, call, fetch, locking>>

\* the broker's error event -> ExecutionEngine._on_tws_error
TwsError(o, code) ==
    /\ o \in placed \cup {0}
    /\ code = ORDER_REJECTED => o \in placed
    /\ SetEngine(on_tws_error(Eng, o, code))
    /\ evt' = Event("tws_error", NoSym, o, "", 0, 0, code, FALSE)
    /\ UNCHANGED <<now, monitorVars, backtest, threadVars, call, fetch, locking>>

\* run_trading_bot: the end-of-day cleanup
CloseAllPositions ==
    LET E == close_all_positions(Eng) IN
    /\ E.next_order_id <= MaxOrderId + 1
    /\ SetEngine(E)
    /\ evt' = Event("close_all_positions", NoSym, 0, "", 0, 0, 0, FALSE)
    /\ UNCHANGED <<now, monitorVars, backtest, threadVars, call, fetch, locking>>

\* One entry-timeout period passes.
Tick ==
    /\ now < MaxTime
    /\ now' = now + 1
    /\ evt' = Event("tick", NoSym, 0, "", 0, 0, 0, FALSE)
    /\ UNCHANGED <<engineVars, monitorVars, backtest, threadVars, call, fetch, locking>>

\* ------------------------------------------------- the monitor's actions
\* The tick callback: monitors[s].on_tick(s, p, v, vw, ts, b, a)
OnTick(price, size, vwap, timestamp, bid, ask) ==
    /\ Len(update_bars(Windows, price, size, vwap, timestamp, "tick").w1.curr) <= MaxCurr
    /\ market_data' = tick_market_data(market_data, price, size, vwap,
                                       timestamp, bid, ask)
    /\ SetWindows(update_bars(Windows, price, size, vwap, timestamp, "tick"))
    /\ upd' = Upd("on_tick", <<>>, NoChecks, FALSE, "")
    /\ evt' = Event("monitor", NoSym, 0, "", 0, 0, 0, FALSE)
    /\ UNCHANGED <<state, arm_time, last_reason, warmup_start_time, timer_time,
                   engineVars, now, backtest, threadVars, call, fetch, locking>>

\* run(): "for m in monitors.values(): m.on_timer()", once a second.
OnTimer ==
    LET md == timer_market_data(market_data, now)
        B  == update_bars(Windows, md.price, 0, md.vwap, now, "timer")
        r  == process_state_machine([Mon EXCEPT !.market_data = md], Eng,
                                    B.w1.bars, B.w5.bars, warmup_start_time, now)
    IN
    /\ timer_time # now
    /\ Len(B.w1.curr) <= MaxCurr
    /\ r.eng.next_order_id <= MaxMonitorOrderId + 1
    /\ timer_time' = now
    /\ SetWindows(B)
    /\ SetMonitor(r.mon)
    /\ SetEngine(r.eng)
    /\ upd' = Upd("on_timer", r.trail, r.checks, r.accepted, r.exit_reason)
    /\ evt' = Event("monitor", NoSym, 0, "", 0, 0, 0, FALSE)
    /\ UNCHANGED <<warmup_start_time, now, backtest, threadVars, call, fetch, locking>>

\* Time passes: d clock units.
Advance(d) ==
    /\ timer_time = now
    /\ now + d <= MaxClock
    /\ now' = now + d
    /\ upd' = Upd("advance", <<>>, NoChecks, FALSE, "")
    /\ evt' = Event("advance", NoSym, 0, "", 0, 0, 0, FALSE)
    /\ UNCHANGED <<engineVars, state, arm_time, last_reason, warmup_start_time,
                   market_data, bars_1s, bars_5s, curr_1s_data, curr_5s_data,
                   last_1s_ts, last_5s_ts, timer_time, backtest, threadVars, call, fetch, locking>>

\* The broker's order-status event, handled by the engine of the monitor.
MonitorOrderStatus(o, e) ==
    /\ order_to_symbol[o] # NoSym
    /\ SetEngine(onOrderStatus(Eng, o, e[1], e[2], e[3], now))
    /\ evt' = Event("order_status", NoSym, o, e[1], e[2], e[3], 0, FALSE)
    /\ upd' = Upd("order_status", <<>>, NoChecks, FALSE, "")
    /\ UNCHANGED <<now, state, arm_time, last_reason, warmup_start_time,
                   market_data, bars_1s, bars_5s, curr_1s_data, curr_5s_data,
                   last_1s_ts, last_5s_ts, timer_time, backtest, threadVars, call, fetch, locking>>

\* The broker's hard rejection, handled by the engine of the monitor.
MonitorOrderError(o) ==
    /\ order_to_symbol[o] # NoSym
    /\ SetEngine(onOrderError(Eng, o, ORDER_REJECTED, now))
    /\ evt' = Event("tws_error", NoSym, o, "", 0, 0, ORDER_REJECTED, FALSE)
    /\ upd' = Upd("tws_error", <<>>, NoChecks, FALSE, "")
    /\ UNCHANGED <<now, state, arm_time, last_reason, warmup_start_time,
                   market_data, bars_1s, bars_5s, curr_1s_data, curr_5s_data,
                   last_1s_ts, last_5s_ts, timer_time, backtest, threadVars, call, fetch, locking>>

\* ------------------------------------------------ the bar aggregator alone
\* Ticks of one price with any timestamps, in any order, and the timer.
BarsInit ==
    /\ InitEngine
    /\ InitMonitor(<<>>, <<>>)
    /\ backtest = BacktestEngine0
    /\ InitThreads
    /\ call = NoCall
    /\ fetch = NoFetch
    /\ locking = NoLocking

BarsNext ==
    \/ \E ts \in TickTimes : OnTick(BarsPrice, 1, BarsPrice, ts, BarsPrice - 2, BarsPrice)
    \/ OnTimer
    \/ Advance(Second)

SpecBars == BarsInit /\ [][BarsNext]_vars

\* ------------------------------------------- the monitor and its engine
\* The preloaded history is one of Histories; ticks are stamped with the
\* clock, as TWSDataApp stamps them.
MonitorInit ==
    /\ InitEngine
    /\ \E h \in Histories : InitMonitor(h[1], h[2])
    /\ backtest = BacktestEngine0
    /\ InitThreads
    /\ call = NoCall
    /\ fetch = NoFetch
    /\ locking = NoLocking

MonitorNext ==
    \/ \E k \in TickInputs : OnTick(k.price, k.size, k.vwap, now, k.bid, k.ask)
    \/ OnTimer
    \/ Advance(Second)
    \/ \E o \in OrderIds, e \in MonitorStatusEvents : MonitorOrderStatus(o, e)
    \/ \E o \in OrderIds : MonitorOrderError(o)

SpecMonitor == MonitorInit /\ [][MonitorNext]_vars

\* ------------------------------------------------------- the backtest
\* datetime.now() while the backtest runs: later than every bar of the
\* input by more than the time stop.
BacktestWall == MaxBacktestClock + (TIME_STOP_SECONDS + 1) * Second

\* run_backtest: "engine.add_bar_1s(bar)" with the next 1-second bar.
AddBar1s(shape) ==
    /\ backtest.clock <= MaxBacktestClock
    /\ backtest' = [add_bar_1s(backtest, BacktestBar(shape, backtest.clock),
                               BacktestWall)
                    EXCEPT !.clock = @ + Second]
    /\ UNCHANGED <<engineVars, now, evt, monitorVars, threadVars, call, fetch, locking>>

\* run_backtest: "engine.add_bar_5s(bar)"; events are sorted by timestamp,
\* a 5-second bar following the 1-second bar of its timestamp.
AddBar5s(shape) ==
    /\ backtest.clock > 0
    /\ backtest.clock5 # backtest.clock - Second
    /\ backtest' = [add_bar_5s(backtest, BacktestBar(shape, backtest.clock - Second))
                    EXCEPT !.clock5 = backtest.clock - Second]
    /\ UNCHANGED <<engineVars, now, evt, monitorVars, threadVars, call, fetch, locking>>

BacktestNext ==
    \/ \E shape \in BacktestBars : AddBar1s(shape)
    \/ \E shape \in BacktestBars : AddBar5s(shape)

SpecBacktest == Init /\ [][BacktestNext]_vars

\* ------------------------------------------------ threads and the lock
\* "with self.lock:" a callback or the main thread enters an engine method.
Acquire(t) ==
    /\ t \in {"main", "callback"}
    /\ lock = NoThread
    /\ pc[t] = "idle"
    /\ lock' = t
    /\ pc' = [pc EXCEPT ![t] = "locked"]
    /\ UNCHANGED <<engineVars, now, evt, monitorVars, backtest, job, call, fetch, locking>>

\* The body of execute_trade, run by the main thread inside the lock.
MainBody(s, ep) ==
    LET r == execute_trade(Eng, s, ep, now) IN
    /\ pc["main"] = "locked"
    /\ r.eng.next_order_id <= MaxThreadOrderId + 1
    /\ SetEngine(r.eng)
    /\ evt' = Event("execute_trade", s, 0, "", 0, ep, 0, r.ret)
    /\ pc' = [pc EXCEPT !["main"] = "leaving"]
    /\ UNCHANGED <<now, monitorVars, backtest, lock, job, call, fetch, locking>>

\* The body of _on_order_status, run by the callback thread inside the
\* lock.  A dashboard pass that is iterating self.positions when the dict
\* changes size fails ("dictionary changed size during iteration").
CallbackBody(o, e) ==
    LET E == on_order_status(Eng, o, e[1], e[2], e[3]) IN
    /\ pc["callback"] = "locked"
    /\ o \in placed
    /\ SetEngine(E)
    /\ evt' = Event("order_status", NoSym, o, e[1], e[2], e[3], 0, FALSE)
    /\ pc' = [pc EXCEPT !["callback"] = "leaving",
                        !["dashboard"] =
                            IF @ = "positions.items" /\ Len(E.positions) # Len(positions)
                            THEN "failed" ELSE @]
    /\ UNCHANGED <<now, monitorVars, backtest, lock, job, call, fetch, locking>>

\* The end of the "with self.lock:" block.
Release(t) ==
    /\ pc[t] = "leaving"
    /\ lock' = NoThread
    /\ pc' = [pc EXCEPT ![t] = "idle"]
    /\ UNCHANGED <<engineVars, now, evt, monitorVars, backtest, job, call, fetch, locking>>

\* draw_dashboard: "for sym, pos in executor.positions.items():" begins.
DashboardBegin ==
    /\ pc["dashboard"] = "idle"
    /\ pc' = [pc EXCEPT !["dashboard"] = "positions.items"]
    /\ UNCHANGED <<engineVars, now, evt, monitorVars, backtest, lock, job, call, fetch, locking>>

\* draw_dashboard: the pass ends (or "except Exception" logs its failure).
DashboardEnd ==
    /\ pc["dashboard"] \in {"positions.items", "failed"}
    /\ pc' = [pc EXCEPT !["dashboard"] = "idle"]
    /\ UNCHANGED <<engineVars, now, evt, monitorVars, backtest, lock, job, call, fetch, locking>>

ThreadsNext ==
    \/ \E t \in Threads : Acquire(t)
    \/ \E s \in Symbols, ep \in EntryPrices : MainBody(s, ep)
    \/ \E o \in OrderIds, e \in StatusEvents : CallbackBody(o, e)
    \/ \E t \in Threads : Release(t)
    \/ DashboardBegin
    \/ DashboardEnd

SpecThreads == Init /\ [][ThreadsNext]_vars

\* ------------------------------ the two threads that call _update_bars
\* TWSDataApp delivers ticks on its API thread (tickSize -> callback ->
\* on_tick); run() calls on_timer on the main thread.  Neither takes a lock
\* of the monitor, so the statements of the two calls interleave.  A step
\* is one half of _update_bars: the 1-second bucket, then the 5-second one.
InUpdateBars == {"update_1s", "update_5s"}

\* on_tick up to the call of _update_bars; the tick is stamped with the
\* clock (tickSize passes datetime.now()).
TickBegin(price, size, vwap, bid, ask) ==
    /\ pc["callback"] = "idle"
    /\ Len(curr_1s_data) < MaxCurr
    /\ market_data' = tick_market_data(market_data, price, size, vwap, now, bid, ask)
    /\ job' = [job EXCEPT !["callback"] =
                  [price |-> price, size |-> size, vwap |-> vwap, ts |-> now,
                   source |-> "tick"]]
    /\ pc' = [pc EXCEPT !["callback"] = "update_1s"]
    /\ upd' = Upd("on_tick", <<>>, NoChecks, FALSE, "")
    /\ evt' = Event("monitor", NoSym, 0, "", 0, 0, 0, FALSE)
    /\ UNCHANGED <<engineVars, now, state, arm_time, last_reason,
                   warmup_start_time, bars_1s, bars_5s, curr_1s_data,
                   curr_5s_data, last_1s_ts, last_5s_ts, timer_time, backtest,
                   lock, call, fetch, locking>>

\* on_timer up to the call of _update_bars.
TimerBegin ==
    LET md == timer_market_data(market_data, now) IN
    /\ pc["main"] = "idle"
    /\ timer_time # now
    /\ timer_time' = now
    /\ market_data' = md
    /\ job' = [job EXCEPT !["main"] =
                  [price |-> md.price, size |-> 0, vwap |-> md.vwap, ts |-> now,
                   source |-> "timer"]]
    /\ pc' = [pc EXCEPT !["main"] = "update_1s"]
    /\ upd' = Upd("on_timer", <<>>, NoChecks, FALSE, "")
    /\ evt' = Event("monitor", NoSym, 0, "", 0, 0, 0, FALSE)
    /\ UNCHANGED <<engineVars, now, state, arm_time, last_reason,
                   warmup_start_time, bars_1s, bars_5s, curr_1s_data,
                   curr_5s_data, last_1s_ts, last_5s_ts, backtest, lock, call, fetch, locking>>

\* _update_bars, first half, run by thread t.
Update1s(t) ==
    LET j == job[t]
        W == update_bucket(Windows.w1, ts_1s(j.ts), <<j.price, j.size, j.source>>,
                           j.vwap, BARS_1S_MAXLEN)
    IN
    /\ pc[t] = "update_1s"
    /\ bars_1s' = W.bars
    /\ curr_1s_data' = W.curr
    /\ last_1s_ts' = W.last
    /\ pc' = [pc EXCEPT ![t] = "update_5s"]
    /\ UNCHANGED <<engineVars, now, evt, state, arm_time, last_reason,
                   warmup_start_time, market_data, bars_5s, curr_5s_data,
                   last_5s_ts, timer_time, upd, backtest, lock, job, call, fetch, locking>>

\* _update_bars, second half, run by thread t; on_tick then returns, and
\* on_timer goes on to _process_state_machine.
Update5s(t) ==
    LET j == job[t]
        W == update_bucket(Windows.w5, ts_5s(j.ts), <<j.price, j.size, j.source>>,
                           j.vwap, BARS_5S_MAXLEN)
    IN
    /\ pc[t] = "update_5s"
    /\ bars_5s' = W.bars
    /\ curr_5s_data' = W.curr
    /\ last_5s_ts' = W.last
    /\ pc' = [pc EXCEPT ![t] = IF t = "main" THEN "state_machine" ELSE "idle"]
    /\ job' = [job EXCEPT ![t] = NoJob]
    /\ UNCHANGED <<engineVars, now, evt, state, arm_time, last_reason,
                   warmup_start_time, market_data, bars_1s, curr_1s_data,
                   last_1s_ts, timer_time, upd, backtest, lock, call, fetch, locking>>

\* on_timer: self._process_state_machine()
StateMachine ==
    LET r == process_state_machine(Mon, Eng, bars_1s, bars_5s,
                                   warmup_start_time, now)
    IN
    /\ pc["main"] = "state_machine"
    /\ r.eng.next_order_id <= MaxMonitorOrderId + 1
    /\ SetMonitor(r.mon)
    /\ SetEngine(r.eng)
    /\ pc' = [pc EXCEPT !["main"] = "idle"]
    /\ upd' = Upd("on_timer", r.trail, r.checks, r.accepted, r.exit_reason)
    /\ evt' = Event("monitor", NoSym, 0, "", 0, 0, 0, FALSE)
    /\ UNCHANGED <<now, warmup_start_time, bars_1s, bars_5s, curr_1s_data,
                   curr_5s_data, last_1s_ts, last_5s_ts, timer_time, backtest,
                   lock, job, call, fetch, locking>>

BarThreadsNext ==
    \/ TickBegin(BarsPrice, 1, BarsPrice, BarsPrice - 2, BarsPrice)
    \/ TimerBegin
    \/ \E t \in {"callback", "main"} : Update1s(t)
    \/ \E t \in {"callback", "main"} : Update5s(t)
    \/ StateMachine
    \/ Advance(Second)

SpecBarThreads == Init /\ [][BarThreadsNext]_vars

\* ------------------------------------------- the checks on their own
\* The arguments are drawn once; the checks are evaluated on them, at any
\* time and any number of times.
ChecksInit ==
    /\ InitEngine
    /\ InitMonitor(<<>>, <<>>)
    /\ backtest = BacktestEngine0
    /\ InitThreads
    /\ \E a \in CheckArgs : call = [NoCall EXCEPT !.args = a]
    /\ fetch = NoFetch
    /\ locking = NoLocking

Evaluate(fn, ret) ==
    /\ call' = [call EXCEPT !.fn = fn, !.at = now, !.ret = ret]
    /\ UNCHANGED <<engineVars, now, evt, monitorVars, backtest, threadVars, fetch, locking>>

EvalWindow ==
    /\ call.args \in GateArgs
    /\ Evaluate("is_in_window",
                Ret(is_in_window(call.args.data.timestamp), "", 0, 0, 0))

EvalShock ==
    /\ call.args \in ShockArgs
    /\ Evaluate("check_shock_1s", Ret(check_shock_1s(call.args.data), "", 0, 0, 0))

EvalConfirm ==
    /\ call.args \in GateArgs
    /\ Evaluate("check_confirm_5s",
                Ret(check_confirm_5s(call.args.data), "", 0, 0, 0))

EvalNoFade ==
    /\ call.args \in GateArgs
    /\ Evaluate("check_no_fade", Ret(check_no_fade(call.args.data), "", 0, 0, 0))

EvalExecSafety ==
    /\ call.args \in GateArgs
    /\ Evaluate("check_exec_safety",
                Ret(check_exec_safety(call.args.data), "", 0, 0, 0))

\* check_exit reads datetime.now(): the clock at the evaluation.
EvalExit ==
    LET a == call.args
        reason == check_exit(a.data, a.entry_price, a.stop_price, a.entry_time,
                             a.R, now)
    IN
    /\ a \in ExitArgs
    /\ Evaluate("check_exit", Ret(reason # "", reason, 0, 0, 0))

EvalMedians ==
    LET m == calculate_medians(call.args.bars, call.args.window_seconds) IN
    /\ call.args \in MedianArgs
    /\ Evaluate("calculate_medians", Ret(TRUE, "", m.vol, m.range, 0))

EvalCommission ==
    LET a == call.args IN
    /\ a \in CommissionArgs
    /\ Evaluate("commission",
                Ret(TRUE, "", 0, 0, commission(a.price, a.price, a.shares)))

\* Time passes between two evaluations.
Wait ==
    /\ now + Second <= MaxClock
    /\ now' = now + Second
    /\ UNCHANGED <<engineVars, evt, monitorVars, backtest, threadVars, call, fetch, locking>>

ChecksNext ==
    \/ EvalWindow
    \/ EvalShock
    \/ EvalConfirm
    \/ EvalNoFade
    \/ EvalExecSafety
    \/ EvalExit
    \/ EvalMedians
    \/ EvalCommission
    \/ Wait

SpecChecks == ChecksInit /\ [][ChecksNext]_vars

\* ------------------------------------------- fetch_historical_bars
\* The call up to reqHistoricalData: the request's list is emptied and its
\* completion flag cleared.  The broker will answer with one of FetchAnswers.
FetchBegin(answer) ==
    /\ fetch.pc \in {"idle", "returned"}
    /\ fetch.calls < MaxFetches
    /\ fetch' = [NoFetch EXCEPT !.pc = "waiting", !.answer = answer,
                                !.calls = fetch.calls + 1,
                                !.in_data = TRUE, !.in_complete = TRUE]
    /\ UNCHANGED <<engineVars, now, evt, monitorVars, backtest, threadVars, call, locking>>

\* TWSDataApp.historicalData, on the API thread, whenever the broker sends
\* the next bar: "if reqId not in self.historical_data:
\* self.historical_data[reqId] = []", then the bar is appended.
HistoricalData ==
    /\ fetch.pc \in {"waiting", "returned"}
    /\ fetch.delivered < Len(fetch.answer)
    /\ fetch' = [fetch EXCEPT
                   !.delivered = @ + 1,
                   !.in_data = TRUE,
                   !.historical_data =
                       Append(IF fetch.in_data THEN @ ELSE <<>>,
                              fetch.answer[fetch.delivered + 1])]
    /\ UNCHANGED <<engineVars, now, evt, monitorVars, backtest, threadVars, call, locking>>

\* TWSDataApp.historicalDataEnd, after the last bar:
\* "self.historical_complete[reqId] = True".
HistoricalDataEnd ==
    /\ fetch.pc \in {"waiting", "returned"}
    /\ fetch.delivered = Len(fetch.answer)
    /\ ~fetch.end_sent
    /\ fetch' = [fetch EXCEPT
                   !.end_sent = TRUE,
                   !.in_complete = TRUE,
                   !.historical_complete = IF fetch.pc = "waiting" THEN TRUE ELSE @]
    /\ UNCHANGED <<engineVars, now, evt, monitorVars, backtest, threadVars, call, locking>>

\* One turn of "while waited < timeout": not complete, sleep 0.1 s.
FetchPoll ==
    /\ fetch.pc = "waiting"
    /\ fetch.waited < FETCH_TIMEOUT_POLLS
    /\ ~fetch.historical_complete
    /\ fetch' = [fetch EXCEPT !.waited = @ + 1]
    /\ UNCHANGED <<engineVars, now, evt, monitorVars, backtest, threadVars, call, locking>>

\* The loop ends, by "break" or by the timeout, and the call returns
\* "self.historical_data.get(req_id, [])" after deleting the request id
\* from both maps.
FetchReturn ==
    /\ fetch.pc = "waiting"
    /\ fetch.historical_complete \/ fetch.waited >= FETCH_TIMEOUT_POLLS
    /\ fetch' = [fetch EXCEPT !.pc = "returned", !.bars = fetch.historical_data,
                              !.historical_data = <<>>,
                              !.in_data = FALSE, !.in_complete = FALSE]
    /\ UNCHANGED <<engineVars, now, evt, monitorVars, backtest, threadVars, call, locking>>

FetchNext ==
    \/ \E answer \in FetchAnswers : FetchBegin(answer)
    \/ HistoricalData
    \/ HistoricalDataEnd
    \/ FetchPoll
    \/ FetchReturn

SpecFetch == Init /\ [][FetchNext]_vars

\* ------------------------------------------- the two locks at work
\* A thread enters one of its routines.
LockBegin(t, ops) ==
    /\ locking.todo[t] = <<>>
    /\ ops \in JobsOf(t)
    /\ locking' = [locking EXCEPT !.todo[t] = ops]
    /\ UNCHANGED <<engineVars, now, evt, monitorVars, backtest, threadVars, call, fetch>>

\* threading.Lock.acquire: the thread goes on when the lock is free,
\* whoever holds it otherwise (the lock is not reentrant).
LockAcquire(t) ==
    /\ locking.todo[t] # <<>>
    /\ Head(locking.todo[t])[1] = "acquire"
    /\ locking.holder[Head(locking.todo[t])[2]] = NoThread
    /\ locking' = [locking EXCEPT !.holder[Head(locking.todo[t])[2]] = t,
                                  !.todo[t] = Tail(@)]
    /\ UNCHANGED <<engineVars, now, evt, monitorVars, backtest, threadVars, call, fetch>>

\* The end of a "with" block.
LockRelease(t) ==
    /\ locking.todo[t] # <<>>
    /\ Head(locking.todo[t])[1] = "release"
    /\ locking' = [locking EXCEPT !.holder[Head(locking.todo[t])[2]] = NoThread,
                                  !.todo[t] = Tail(@)]
    /\ UNCHANGED <<engineVars, now, evt, monitorVars, backtest, threadVars, call, fetch>>

LocksNext ==
    \/ \E t \in LockThreads : \E ops \in JobsOf(t) : LockBegin(t, ops)
    \/ \E t \in LockThreads : LockAcquire(t)
    \/ \E t \in LockThreads : LockRelease(t)

SpecLocks == Init /\ [][LocksNext]_vars

\* ------------------------------------------- the data application's events
\* ExecutionEngine.__init__ appends _on_order_status to
\* tws_app.order_status_callbacks and _on_tws_error to
\* tws_app.error_callbacks.
order_status_callbacks == {"_on_order_status"}
error_callbacks == {"_on_tws_error"}

\* The callbacks TWSDataApp.orderStatus calls: "for callback in
\* self.order_status_callbacks".
orderStatus_calls == order_status_callbacks

\* The callbacks TWSDataApp.error calls: it appends to tws_errors.log,
\* filters the code and prints; it does not read error_callbacks.
error_calls == {}

\* TWSDataApp.error(reqId, errorCode, errorString), on the engine.
app_error(E, reqId, errorCode) ==
    IF "_on_tws_error" \in error_calls THEN on_tws_error(E, reqId, errorCode)
    ELSE E

\* TWSDataApp.orderStatus(orderId, status, filled, ..., avgFillPrice, ...)
app_order_status(E, orderId, status, filled, avgFillPrice) ==
    IF "_on_order_status" \in orderStatus_calls
    THEN on_order_status(E, orderId, status, filled, avgFillPrice)
    ELSE E

\* The broker's error event arrives at the data application.
AppError(o, code) ==
    /\ o \in placed \cup {0}
    /\ code = ORDER_REJECTED => o \in placed
    /\ SetEngine(app_error(Eng, o, code))
    /\ evt' = Event("app_error", NoSym, o, "", 0, 0, code, FALSE)
    /\ UNCHANGED <<now, monitorVars, backtest, threadVars, call, fetch, locking>>

\* The broker's order-status event arrives at the data application.
AppOrderStatus(o, e) ==
    /\ o \in placed
    /\ SetEngine(app_order_status(Eng, o, e[1], e[2], e[3]))
    /\ evt' = Event("app_order_status", NoSym, o, e[1], e[2], e[3], 0, FALSE)
    /\ UNCHANGED <<now, monitorVars, backtest, threadVars, call, fetch, locking>>

AppNext ==
    \/ \E s \in Symbols, ep \in EntryPrices : ExecuteTrade(s, ep, MaxOrderId)
    \/ \E o \in OrderIds, e \in StatusEvents : AppOrderStatus(o, e)
    \/ \E o \in OrderIds, code \in ErrorCodes : AppError(o, code)

SpecApp == Init /\ [][AppNext]_vars

\* ------------------------------------------------- the bracket-order engine
Next ==
    \/ \E s \in Symbols, ep \in EntryPrices : ExecuteTrade(s, ep, MaxOrderId)
    \/ \E o \in OrderIds, e \in StatusEvents : OrderStatus(o, e)
    \/ \E o \in OrderIds, code \in ErrorCodes : TwsError(o, code)
    \/ CloseAllPositions

Spec == Init /\ [][Next]_vars

\* A series of trades: entries and fills only, three brackets.
SeriesNext ==
    \/ \E ep \in EntryPrices : ExecuteTrade(SeriesSymbol, ep, MaxSeriesOrderId)
    \/ \E o \in OrderIds, p \in SeriesFillPrices : OrderStatus(o, <<"Filled", 2, p>>)

SpecSeries == Init /\ [][SeriesNext]_vars

\* Entries, acknowledgements and fills while the clock runs.
TimedNext ==
    \/ \E s \in Symbols, ep \in EntryPrices : ExecuteTrade(s, ep, MaxOrderId)
    \/ \E o \in OrderIds, p \in FillPrices : OrderStatus(o, <<"Filled", 2, p>>)
    \/ \E o \in OrderIds : OrderStatus(o, <<"Submitted", 0, 0>>)
    \/ Tick

SpecTimed == Init /\ [][TimedNext]_vars

\* ------------------------------------------------------------ claim helpers
\* P&L of a closed trade is (exit_price - entry_price) * shares.
LosingTrade(r) == r.type = "CLOSED" /\ r.exit_price < r.entry_price
WinningTrade(r) == r.type = "CLOSED" /\ r.exit_price > r.entry_price

\* The running count of consecutive losing trades, reset by a winning trade.
RECURSIVE ConsecutiveLosses(_)
ConsecutiveLosses(h) ==
    IF h = <<>> THEN 0
    ELSE LET r == h[Len(h)] IN
         IF WinningTrade(r) THEN 0
         ELSE (IF LosingTrade(r) THEN 1 ELSE 0)
              + ConsecutiveLosses(SubSeq(h, 1, Len(h) - 1))

\* The records written for the position whose parent order is pid.
RecordsOf(h, pid) == {i \in 1..Len(h) : h[i].parent_id = pid}

\* Order o is the exit order whose fill wrote record r.
ClosedBy(r, o) ==
    /\ r.type = "CLOSED"
    /\ \/ r.exit_type = "TP" /\ o = r.parent_id + 1
       \/ r.exit_type = "SL" /\ o = r.parent_id + 2

StatusRank(st) == IF st = "SUBMITTED" THEN 0 ELSE 1

\* ------------------------------------------------------------------ claims

\* C1: the active map holds at most one position per symbol, and an entry
\* call for a symbol that already has an active position places no order
\* and leaves the active map as it is.
C1_OnePositionPerSymbol ==
    [][/\ \A i, j \in 1..Len(positions') :
            positions'[i].symbol = positions'[j].symbol => i = j
       /\ (evt'.op = "execute_trade" /\ HasPos(positions, evt'.symbol))
            => placed' = placed /\ positions' = positions]_vars

\* C1 witness: an entry call has just returned for a symbol whose position
\* is already open.
C1_Witness ==
    /\ evt.op = "execute_trade"
    /\ HasPos(positions, evt.symbol)
    /\ PosOf(positions, evt.symbol).status = "OPEN"
    /\ Len(positions) = 2

\* C2: an entry call for a blacklisted symbol places no order and creates no
\* position.
C2_BlacklistedNeverEntered ==
    [][(evt'.op = "execute_trade" /\ evt'.symbol \in blacklist)
         => /\ placed' = placed
            /\ positions' = positions
            /\ order_to_symbol' = order_to_symbol]_vars

\* C2 witness: an entry call for a blacklisted symbol without a position has
\* just been refused.
C2_Witness ==
    /\ evt.op = "execute_trade"
    /\ evt.symbol \in blacklist
    /\ ~HasPos(positions, evt.symbol)
    /\ evt.ret = FALSE
    /\ evt.price = 1

\* C3 (as claimed): once the 201 error and a Cancelled/Inactive status of an
\* order of a pending entry have both been processed, in either order, the
\* symbol is blacklisted, the position is gone and exactly one FAILED record
\* was written for it.
C3_RejectionBlacklists ==
    \A i \in 1..Len(trade_history) :
        LET r == trade_history[i] IN
        (/\ r.type = "FAILED"
         /\ r.order_id = evt.orderId
         /\ \/ /\ evt.op = "tws_error" /\ evt.code = ORDER_REJECTED
               /\ r.reason \in CancelStatuses
            \/ /\ evt.op = "order_status" /\ evt.status \in CancelStatuses
               /\ r.reason = "REJECTED")
        => /\ r.symbol \in blacklist
           /\ \A j \in 1..Len(positions) : positions[j].parent_id # r.parent_id
           /\ Cardinality({k \in RecordsOf(trade_history, r.parent_id) :
                             trade_history[k].type = "FAILED"}) = 1

\* C4 (as claimed): while the count of consecutive losing trades is at the
\* configured maximum, an entry call returns false and places no order.
C4_KillSwitchRefuses ==
    [][(evt'.op = "execute_trade"
        /\ ConsecutiveLosses(trade_history) >= MAX_CONSECUTIVE_LOSSES)
         => evt'.ret = FALSE /\ placed' = placed]_vars

\* C5: a Filled event for an exit order that has already closed its position
\* (the record is in the history) appends no record and leaves the active
\* map, the order-id map and the blacklist unchanged.
C5_DuplicateFillIgnored ==
    [][(/\ evt'.op = "order_status" /\ evt'.status = "Filled"
        /\ \E i \in 1..Len(trade_history) :
              /\ ClosedBy(trade_history[i], evt'.orderId)
              /\ trade_history[i].exit_price = evt'.price)
         => /\ trade_history' = trade_history
            /\ positions' = positions
            /\ order_to_symbol' = order_to_symbol
            /\ blacklist' = blacklist]_vars

\* C5 witness: the Filled event of an exit order was delivered again after
\* its record was written and the symbol was entered anew.
C5_Witness ==
    /\ evt.op = "order_status" /\ evt.status = "Filled"
    /\ \E i \in 1..Len(trade_history) :
          /\ ClosedBy(trade_history[i], evt.orderId)
          /\ trade_history[i].exit_price = evt.price
          /\ HasPos(positions, trade_history[i].symbol)
          /\ PosOf(positions, trade_history[i].symbol).parent_id
                # trade_history[i].parent_id

\* C6: no step moves a position to an earlier status: a position that stays
\* in the active map keeps or advances its status (SUBMITTED -> OPEN), and a
\* position that enters the map is a new one, SUBMITTED, under a fresh
\* parent order id.
C6_StatusMonotonic ==
    [][\A j \in 1..Len(positions') :
          LET q == positions'[j] IN
          IF \E i \in 1..Len(positions) : positions[i].parent_id = q.parent_id
          THEN \A i \in 1..Len(positions) :
                  positions[i].parent_id = q.parent_id
                    => StatusRank(positions[i].status) <= StatusRank(q.status)
          ELSE q.status = "SUBMITTED" /\ q.parent_id >= next_order_id]_vars

\* C6 witness: an open position has just received an acknowledgement or a
\* cancellation for its entry order and is still open.
C6_Witness ==
    /\ evt.op = "order_status"
    /\ evt.status \in CancelStatuses \cup {"Submitted"}
    /\ \E i \in 1..Len(positions) :
          /\ positions[i].parent_id = evt.orderId
          /\ positions[i].status = "OPEN"

\* C7 (as claimed): a Filled status for the entry order of a position whose
\* orders the engine has cancelled (the position was still submitted) is
\* accepted: the symbol then holds an open position at the reported price.
C7_LateFillAccepted ==
    (/\ evt.op = "order_status" /\ evt.status = "Filled"
     /\ \E i \in 1..Len(trade_history) :
           /\ trade_history[i].parent_id = evt.orderId
           /\ trade_history[i].type = "CLOSED"
           /\ trade_history[i].exit_type = "EOD"
           /\ trade_history[i].status = "SUBMITTED"
           /\ trade_history[i].parent_id + 1 \in cancel_reqs)
    => \E j \in 1..Len(positions) :
          /\ positions[j].parent_id = evt.orderId
          /\ positions[j].status = "OPEN"
          /\ positions[j].actual_entry_price = evt.price

\* C8 (as claimed): a Cancelled/Inactive status for the entry order of a
\* submitted position that reports a filled quantity above zero keeps the
\* position, with that quantity as its size, and places no order; with a
\* filled quantity of zero the position is removed.
C8_PartialFillKept ==
    [][\A i \in 1..Len(positions) :
          (/\ evt'.op = "order_status" /\ evt'.status \in CancelStatuses
           /\ positions[i].parent_id = evt'.orderId
           /\ positions[i].status = "SUBMITTED")
          => /\ placed' = placed
             /\ IF evt'.filled > 0
                THEN \E j \in 1..Len(positions') :
                        /\ positions'[j].parent_id = evt'.orderId
                        /\ positions'[j].shares = evt'.filled
                ELSE \A j \in 1..Len(positions') :
                        positions'[j].parent_id # evt'.orderId]_vars

\* C9 (as claimed): a position still submitted once the entry timeout has
\* elapsed has had a cancel requested for its entry order.
C9_TimeoutCancels ==
    \A i \in 1..Len(positions) :
        (positions[i].status = "SUBMITTED"
         /\ now - positions[i].time > ENTRY_TIMEOUT)
        => positions[i].parent_id \in cancel_reqs

\* C10 (as claimed): an entry call for a symbol that already has an active
\* position returns false and places no order.
C10_ActiveEntryRefused ==
    [][(evt'.op = "execute_trade" /\ HasPos(positions, evt'.symbol))
         => evt'.ret = FALSE /\ placed' = placed]_vars

\* C17: a call of close_all_positions leaves the active map empty, appends
\* exactly one EOD record for each position that was active, in the map's
\* order, and places exactly one new (sell) order for each position that was
\* OPEN; no other order is placed.
C17_CloseAllFlattens ==
    [][evt'.op = "close_all_positions"
         => /\ positions' = <<>>
            /\ Len(trade_history') = Len(trade_history) + Len(positions)
            /\ SubSeq(trade_history', 1, Len(trade_history)) = trade_history
            /\ \A i \in 1..Len(positions) :
                  LET r == trade_history'[Len(trade_history) + i] IN
                  /\ r.type = "CLOSED" /\ r.exit_type = "EOD"
                  /\ r.symbol = positions[i].symbol
                  /\ r.parent_id = positions[i].parent_id
            /\ placed \subseteq placed'
            /\ Cardinality(placed' \ placed)
                 = Cardinality({i \in 1..Len(positions) : positions[i].status = "OPEN"})
            /\ next_order_id' = next_order_id + Cardinality(placed' \ placed)]_vars

\* C17 happens: a call has just closed two positions, one that was OPEN
\* (its sell order is the newest order placed) and one still SUBMITTED.
C17_Witness ==
    /\ evt.op = "close_all_positions"
    /\ positions = <<>>
    /\ Len(trade_history) >= 2
    /\ LET a == trade_history[Len(trade_history) - 1]
           b == trade_history[Len(trade_history)]
       IN  /\ a.type = "CLOSED" /\ b.type = "CLOSED"
           /\ a.exit_type = "EOD" /\ b.exit_type = "EOD"
           /\ a.symbol # b.symbol
           /\ {a.status, b.status} = {"OPEN", "SUBMITTED"}
    /\ next_order_id - 1 \in placed
    /\ order_to_symbol[next_order_id - 1] = NoSym

\* The bars of a window are in non-decreasing timestamp order.
TimeOrdered(bars) ==
    \A i \in 1..(Len(bars) - 1) : bars[i].date <= bars[i + 1].date

\* C19 (as claimed): after any sequence of on_tick and on_timer calls, with
\* any tick timestamps, bars_1s and bars_5s are in non-decreasing timestamp
\* order and hold no more bars than their maximum lengths.
C19_BarsOrderedBounded ==
    /\ TimeOrdered(bars_1s)
    /\ TimeOrdered(bars_5s)
    /\ Len(bars_1s) <= BARS_1S_MAXLEN
    /\ Len(bars_5s) <= BARS_5S_MAXLEN

\* C20 (as claimed): every bar of the two windows aggregates at least one
\* trade tick; a bucket in which only the timer fired has no bar.
C20_NoBarWithoutTick ==
    /\ \A i \in 1..Len(bars_1s) : bars_1s[i].ticks > 0
    /\ \A i \in 1..Len(bars_5s) : bars_5s[i].ticks > 0

\* The number of state changes along the states an update went through.
Transitions(trail) ==
    Cardinality({i \in 1..(Len(trail) - 1) : trail[i] # trail[i + 1]})

\* C12 (as claimed): one update of the state machine changes the symbol's
\* state at most once.
C12_OneTransitionPerUpdate ==
    upd.op = "on_timer" => Transitions(upd.trail) <= 1

\* C13 (as claimed): an update that starts in SUBMITTING while the engine
\* holds no position for the symbol (the entry order was rejected or
\* cancelled with nothing filled) leaves the symbol IDLE.
C13_SubmittingReleased ==
    (/\ upd.op = "on_timer"
     /\ upd.trail[1] = "SUBMITTING"
     /\ no_position(Eng, MonitorSymbol))
    => state = "IDLE"

\* C14 (as claimed): the update on which check_exit triggers leaves the
\* symbol EXITING, and the symbol is neither IDLE nor ARMED while the engine
\* holds its position awaiting the exit fill.
C14_ExitingUntilFilled ==
    /\ (upd.op = "on_timer" /\ upd.exit_reason # "") => state = "EXITING"
    /\ (/\ ~no_position(Eng, MonitorSymbol)
        /\ get_position(Eng, MonitorSymbol).status = "EXITING")
       => state \notin {"IDLE", "ARMED"}

\* C15 (as claimed): the update on which the arm timeout is found to have
\* passed leaves the symbol IDLE and submits no entry order.
C15_ArmTimeoutToIdle ==
    (/\ upd.op = "on_timer"
     /\ upd.trail[2] = "ARMED"
     /\ upd.trail[3] = "IDLE")
    => /\ state = "IDLE"
       /\ ~upd.accepted

C16_EntryNeedsAllChecks ==
    /\ upd.accepted
         => upd.checks.confirm /\ upd.checks.safety /\ upd.checks.no_fade
    /\ backtest.entered
         => /\ check_confirm_5s(backtest.market_data)
            /\ check_exec_safety(backtest.market_data)
            /\ check_no_fade(backtest.market_data)

\* The program points at which a thread is reading or writing the engine's
\* maps.
AccessingEngine == {"locked", "positions.items"}

\* C11 (as claimed): a thread that is reading or writing the engine's
\* positions, order ids, blacklist or trade history holds the engine lock.
C11_EngineMapsUnderLock ==
    \A t \in Threads : pc[t] \in AccessingEngine => lock = t

\* C21: the tick callback and the timer never execute the bar update of the
\* symbol at the same time: the accumulators, the windows and the
\* MarketData are never being mutated by two threads at once.
C21_BarUpdateSerialized ==
    ~(pc["callback"] \in InUpdateBars /\ pc["main"] \in InUpdateBars)

\* C22: in every reachable state of a symbol's MarketData, and so at every
\* evaluation of check_shock or check_confirm, med_vol_1s, med_vol_5s and
\* med_range_5s are at or above their positive floors, never zero.
Floored(md) ==
    /\ md.med_vol_1s >= MED_VOL_FLOOR
    /\ md.med_vol_5s >= MED_VOL_FLOOR
    /\ md.med_range_5s >= MED_RANGE_FLOOR

C22_MediansFloored ==
    /\ Floored(market_data)
    /\ Floored(backtest.market_data)

\* The four exit conditions of a check_exit evaluation with arguments a at
\* time t, as the specification lists them.
HardStopHit(a) == a.data.price * StopScale <= a.stop_price
WeaknessHit(a) ==
    /\ a.data.bars_1s # <<>>
    /\ LET last_1s == a.data.bars_1s[Len(a.data.bars_1s)] IN
       /\ last_1s.open > 0
       /\ (last_1s.close - last_1s.open) * 100 <= -FAIL_RET_1S * last_1s.open
TakeProfitHit(a) ==
    a.data.price * StopScale * 100 >= a.entry_price * StopScale * 100 + TP_R_MULT * a.R
TimeStopHit(a, t) ==
    /\ t - a.entry_time >= TIME_STOP_SECONDS * Second
    /\ (a.data.price - a.entry_price) * StopScale * 100 < MIN_PNL_AT_TIME * a.R

FirstExitReason(a, t) ==
    IF HardStopHit(a) THEN "HARD_STOP"
    ELSE IF WeaknessHit(a) THEN "WEAKNESS_EXIT"
    ELSE IF TakeProfitHit(a) THEN "TAKE_PROFIT"
    ELSE IF TimeStopHit(a, t) THEN "TIME_STOP"
    ELSE ""

\* C23: check_exit returns triggered with the reason of the first satisfied
\* condition in the order hard stop (price <= stop_price), weakness, take
\* profit, time stop, and not-triggered exactly when none of the four is
\* satisfied.
C23_ExitFirstSatisfied ==
    call.fn = "check_exit" =>
        /\ call.ret.reason = FirstExitReason(call.args, call.at)
        /\ call.ret.ok = (FirstExitReason(call.args, call.at) # "")

\* C24: two evaluations of a strategy check (is_in_window, check_shock,
\* check_confirm, check_no_fade, check_exec_safety, check_exit) with the
\* same snapshot, arguments and parameters return the same decision,
\* whenever they are made, and leave the snapshot as it was.
C24_ChecksDeterministic ==
    [][(call.fn # "none" /\ call'.fn = call.fn /\ call'.args = call.args)
          => call'.ret = call.ret]_vars

\* C25: check_exec_safety returns false whenever the bid/ask quote is older
\* than QUOTE_STALE_MS at the evaluation, even when bid and ask are
\* non-zero and both spread checks pass.  The quote of a snapshot is as old
\* as the snapshot's timestamp (the tick that carried it).
C25_StaleQuoteUnsafe ==
    (call.fn = "check_exec_safety"
        /\ call.at - call.args.data.timestamp > QUOTE_STALE_MS)
    => ~call.ret.ok

\* C26: check_shock returns false whenever there is no 1-second bar or the
\* latest bar's open is 0, whatever the other fields (the previous bar and
\* med_vol_1s included) are.
C26_ShockFailsClosed ==
    (call.fn = "check_shock_1s"
        /\ \/ call.args.data.bars_1s = <<>>
           \/ call.args.data.bars_1s[Len(call.args.data.bars_1s)].open = 0)
    => ~call.ret.ok

\* The check was evaluated on a zero-open bar that follows a bar whose move
\* and volume are a shock.
C26_Witness ==
    /\ call.fn = "check_shock_1s"
    /\ call.args.data.bars_1s = <<MoveBar(-2), ZeroOpenBar(0)>>
    /\ call.args.data.med_vol_1s = 0
    /\ ~call.ret.ok

\* C27: fetch_historical_bars returns after at most its timeout, and when the
\* request failed or did not complete it returns an empty sequence, never a
\* partial list.
C27_FetchAllOrNothing ==
    /\ fetch.waited <= FETCH_TIMEOUT_POLLS
    /\ (fetch.pc = "returned" /\ ~fetch.historical_complete) => fetch.bars = <<>>

\* C28: at a fixed price the commission of an order is non-decreasing in the
\* share count and never below COMMISSION_MIN, in both tiers.
C28_CommissionMonotoneFloored ==
    call.fn = "commission" =>
        /\ call.ret.amount >= CommScale * COMMISSION_MIN
        /\ \A b \in CommissionArgs :
              (b.price = call.args.price /\ b.shares <= call.args.shares)
              => commission(b.price, b.price, b.shares) <= call.ret.amount

\* The bars the specification takes the medians of: those within
\* window_seconds of the newest bar, or the most recent 10 bars when fewer
\* than 5 are within the window.
WindowBars(bars, window_seconds) ==
    SelectSeq(bars, LAMBDA b : bars[Len(bars)].date - b.date <= window_seconds * Second)
FilteredBars(bars, window_seconds) ==
    IF Len(WindowBars(bars, window_seconds)) < 5
    THEN SubSeq(bars, Max2(1, Len(bars) - 9), Len(bars))
    ELSE WindowBars(bars, window_seconds)

\* C29: calculate_medians takes the medians over the bars within
\* window_seconds of the newest bar only, or over the most recent 10 bars
\* when fewer than 5 fall in the window.
C29_MediansOverWindow ==
    (call.fn = "calculate_medians" /\ call.args.bars # <<>>) =>
        LET f == FilteredBars(call.args.bars, call.args.window_seconds) IN
        /\ call.ret.vol =
              Max2(MED_VOL_FLOOR, Median2([i \in 1..Len(f) |-> f[i].volume]))
        /\ call.ret.range =
              Max2(MED_RANGE_FLOOR, Median2([i \in 1..Len(f) |-> f[i].high - f[i].low]))

\* The median of a list, doubled, from the list sorted by insertion: the
\* middle value of an odd count, the mean of the two middle values of an
\* even count.
RECURSIVE Insert(_, _)
Insert(x, sorted) ==
    IF sorted = <<>> THEN <<x>>
    ELSE IF x <= Head(sorted) THEN <<x>> \o sorted
    ELSE <<Head(sorted)>> \o Insert(x, Tail(sorted))
RECURSIVE Sort(_)
Sort(values) ==
    IF values = <<>> THEN <<>> ELSE Insert(Head(values), Sort(Tail(values)))
MiddleOfSorted2(values) ==
    LET sorted == Sort(values)
        n == Len(values)
    IN  IF n % 2 = 1 THEN 2 * sorted[(n + 1) \div 2]
        ELSE sorted[n \div 2] + sorted[n \div 2 + 1]

\* C30: for every non-empty bar sequence, all-zero volumes included,
\* calculate_medians returns max(floor, median) for volume and for range,
\* the median of an even count being the mean of the two middle sorted
\* values; for the empty sequence it returns values at or above the floors;
\* no returned median is ever 0.
C30_MediansFlooredMedian ==
    call.fn = "calculate_medians" =>
        LET bars == call.args.bars IN
        /\ call.ret.vol >= MED_VOL_FLOOR /\ call.ret.vol # 0
        /\ call.ret.range >= MED_RANGE_FLOOR /\ call.ret.range # 0
        /\ bars # <<>> =>
              /\ call.ret.vol =
                    Max2(MED_VOL_FLOOR,
                         MiddleOfSorted2([i \in 1..Len(bars) |-> bars[i].volume]))
              /\ call.ret.range =
                    Max2(MED_RANGE_FLOOR,
                         MiddleOfSorted2([i \in 1..Len(bars) |->
                                            bars[i].high - bars[i].low]))

\* The medians of two bars without volume or range were taken: both are
\* the floors.
C30_Witness ==
    /\ call.fn = "calculate_medians"
    /\ call.args.bars = <<NoVolumeBar(-2), NoVolumeBar(0)>>
    /\ call.ret.vol = MED_VOL_FLOOR
    /\ call.ret.range = MED_RANGE_FLOOR

\* C31: when the share count computed from the per-trade investment and the
\* price is <= 0, the entry returns false, places no order, consumes no
\* order id, and leaves the active map, the order-id map and the trade
\* history unchanged.
C31_NoSharesNoEntry ==
    [][(evt'.op = "execute_trade" /\ SharesFor(evt'.price) <= 0)
          => /\ evt'.ret = FALSE
             /\ placed' = placed
             /\ next_order_id' = next_order_id
             /\ positions' = positions
             /\ order_to_symbol' = order_to_symbol
             /\ trade_history' = trade_history]_vars

\* C32: the symbol leaves WARMUP only on an update where it has at least the
\* minimum numbers of buffered 1-second and 5-second bars or the fallback
\* warm-up time has elapsed since the start; and an update that ends with
\* the symbol still in WARMUP neither arms it nor places an entry order.
C32_WarmupGate ==
    [][/\ (state = "WARMUP" /\ state' # "WARMUP")
          => /\ upd'.op = "on_timer"
             /\ \/ /\ Len(bars_1s') >= WARMUP_MIN_1S_BARS
                   /\ Len(bars_5s') >= WARMUP_MIN_5S_BARS
                \/ now - warmup_start_time >= WARMUP_FALLBACK_SECONDS * Second
       /\ (upd'.op \in {"on_timer", "on_tick"} /\ state' = "WARMUP")
          => /\ arm_time' = arm_time
             /\ placed' = placed
             /\ positions' = positions
             /\ next_order_id' = next_order_id]_vars

\* The symbol left WARMUP on a timer update, on its buffered bars, before
\* the fallback time had elapsed.
C32_Witness ==
    /\ upd.op = "on_timer"
    /\ upd.trail[1] = "WARMUP"
    /\ upd.trail[2] = "IDLE"
    /\ now - warmup_start_time < WARMUP_FALLBACK_SECONDS * Second
    /\ Len(bars_1s) >= WARMUP_MIN_1S_BARS

\* C33: the blacklist only grows: no operation of the engine (entry,
\* order-status handling, error handling, close-all) ever removes a symbol
\* from it.
C33_BlacklistGrows ==
    [][blacklist \subseteq blacklist']_vars

\* A blacklisted symbol's position (it was open when the rejection came)
\* has been closed by the end-of-day cleanup, and the symbol is still
\* blacklisted.
C33_Witness ==
    /\ evt.op = "close_all_positions"
    /\ trade_history # <<>>
    /\ trade_history[Len(trade_history)].type = "CLOSED"
    /\ trade_history[Len(trade_history)].symbol \in blacklist

\* C34: every broker error event received by the data application's error
\* handler is delivered to the callbacks registered in error_callbacks, so
\* a code-201 rejection of an order of an active position reaches the
\* engine's rejection handler: when the handler returns, the order's
\* symbol is blacklisted.
C34_RejectionDelivered ==
    [][(/\ evt'.op = "app_error"
        /\ evt'.code = ORDER_REJECTED
        /\ order_to_symbol[evt'.orderId] # NoSym)
          => order_to_symbol[evt'.orderId] \in blacklist']_vars

\* C35: the number of trade-history records equals the number of positions
\* ever created minus the number active.  The history and the active map
\* start empty, and in every step the history grows by exactly the number
\* of positions that left the active map: the positions active before,
\* plus the one the step created, minus the positions active after.
C35_RecordPerRemoval ==
    [][LET created == IF /\ evt'.op = "execute_trade"
                         /\ ~HasPos(positions, evt'.symbol)
                         /\ HasPos(positions', evt'.symbol)
                      THEN 1 ELSE 0
       IN  /\ Len(positions') <= Len(positions) + created
           /\ Len(trade_history') =
                 Len(trade_history) + Len(positions) + created - Len(positions')]_vars

\* A cancelled entry has left its record while a second position is active.
C35_Witness ==
    /\ Len(trade_history) = 1
    /\ trade_history[1].type = "FAILED"
    /\ trade_history[1].reason \in CancelStatuses
    /\ Len(positions) = 1
    /\ positions[1].parent_id # trade_history[1].parent_id

\* The three order ids of a position.
BracketIds(pos) == {pos.parent_id, pos.tp_id, pos.sl_id}

\* The order-id map M holds exactly the bracket ids of the positions P, each
\* mapped to its position's symbol; the brackets are disjoint and placed.
OrderMapExact(P, M, sent, next) ==
    /\ \A o \in OrderIds :
          M[o] # NoSym <=> \E i \in 1..Len(P) : o \in BracketIds(P[i])
    /\ \A i \in 1..Len(P) :
          /\ Cardinality(BracketIds(P[i])) = 3
          /\ BracketIds(P[i]) \subseteq sent
          /\ \A o \in BracketIds(P[i]) : M[o] = P[i].symbol
          /\ \A j \in 1..Len(P) :
                j # i => BracketIds(P[i]) \cap BracketIds(P[j]) = {}
    /\ \A o \in sent : o < next

\* The ids a step hands out are fresh and as many as the orders it places:
\* three for an entry, one for every open position an end-of-day close
\* sells.
FreshIds ==
    LET entered == IF /\ evt'.op = "execute_trade"
                      /\ ~HasPos(positions, evt'.symbol)
                      /\ HasPos(positions', evt'.symbol)
                   THEN 3 ELSE 0
        sold    == IF evt'.op = "close_all_positions"
                   THEN Len(SelectSeq(positions, LAMBDA p : p.status = "OPEN"))
                   ELSE 0
    IN  /\ placed \subseteq placed'
        /\ \A o \in placed' \ placed : o >= next_order_id
        /\ Cardinality(placed' \ placed) = entered + sold
        /\ next_order_id' = next_order_id + entered + sold

\* C36: in every reachable engine state the order-id map contains exactly
\* the parent, take-profit and stop-loss ids of the active positions, each
\* mapped to its own symbol, and the order ids of different positions and of
\* close orders are pairwise distinct (every id handed out is fresh).
C36_OrderMapExact ==
    [][/\ OrderMapExact(positions, order_to_symbol, placed, next_order_id)
       /\ OrderMapExact(positions', order_to_symbol', placed', next_order_id')
       /\ FreshIds]_vars

\* A position was sold at the end of the day with a close order, and a
\* later bracket is active.
C36_Witness ==
    /\ Len(positions) = 1
    /\ Len(trade_history) = 1
    /\ trade_history[1].type = "CLOSED"
    /\ trade_history[1].exit_type = "EOD"
    /\ trade_history[1].status = "OPEN"
    /\ positions[1].parent_id = trade_history[1].parent_id + 4
    /\ order_to_symbol[positions[1].sl_id] = positions[1].symbol

\* C37: a CLOSED record for a take-profit or stop-loss fill is appended only
\* for a position whose entry fill has been observed: a Filled event of an
\* exit order processed while the position is still SUBMITTED leaves the
\* position active and the history as it was.
C37_ExitFillNeedsOpen ==
    [][LET symbol == order_to_symbol[evt'.orderId] IN
       (/\ evt'.op = "order_status"
        /\ evt'.status = "Filled"
        /\ symbol # NoSym
        /\ HasPos(positions, symbol)
        /\ PosOf(positions, symbol).status = "SUBMITTED"
        /\ evt'.orderId \in {PosOf(positions, symbol).tp_id,
                              PosOf(positions, symbol).sl_id})
          => /\ HasPos(positions', symbol)
             /\ trade_history' = trade_history]_vars

\* C38: after fetch_historical_bars has returned, the data application holds
\* no entry for that request id in its historical-data map or its
\* completion map, also when bar or end-of-data callbacks of the request
\* arrive after the timeout.
C38_NoEntryAfterReturn ==
    fetch.pc = "returned" => ~fetch.in_data /\ ~fetch.in_complete

\* Thread t is about to acquire lock l.
Acquiring(t, l) ==
    /\ locking.todo[t] # <<>>
    /\ Head(locking.todo[t]) = <<"acquire", l>>

\* Thread t can take its next step.
CanStep(t) ==
    /\ locking.todo[t] # <<>>
    /\ Head(locking.todo[t])[1] = "acquire"
          => locking.holder[Head(locking.todo[t])[2]] = NoThread

\* C39: no interleaving of the market-data thread, the order-status/error
\* thread and the main thread deadlocks: no thread acquires a lock it
\* already holds, the data-application lock is never acquired by a thread
\* that holds the engine lock (so the two are never taken in opposite
\* orders), and whenever some thread is inside a routine some thread can
\* take its next step.
C39_NoDeadlock ==
    /\ \A t \in LockThreads, l \in LockNames :
          Acquiring(t, l) => locking.holder[l] # t
    /\ \A t \in LockThreads :
          Acquiring(t, DataLock) => locking.holder[EngineLock] # t
    /\ (\E t \in LockThreads : locking.todo[t] # <<>>)
          => \E t \in LockThreads : CanStep(t)

\* The tick callback, running inside the data-application lock, waits for
\* the engine lock while the main thread holds it.
C39_Witness ==
    /\ locking.holder[DataLock] = "market"
    /\ locking.holder[EngineLock] = "main"
    /\ Acquiring("market", EngineLock)
    /\ locking.todo["status"] # <<>>

====
